---- MODULE Spec2Model ----
(***************************************************************************)
(* Field-level encryption of microcosm-postgres (encryption/v2): the       *)
(* encrypted field descriptor, the ContextVar that carries the active      *)
(* encryptor, and the reencryption command.                                *)
(***************************************************************************)
EXTENDS Integers, Sequences, FiniteSets, TLC

VARIABLES
    ctx,      \* AwsKmsEncryptor._encryptor_context: its value in each thread
    tokens,   \* per thread, the ContextVar tokens of the scopes still open
    view,     \* per thread, what that thread's own binds and resets amount to
    obj,      \* the three slots of every encrypted field of one instance
    last,     \* the operation that produced the current state
    db,       \* committed rows, by instance
    sess,     \* the session's copy of the rows
    run       \* the reencrypt command: position, arguments, statistics

vars == <<ctx, tokens, view, obj, last, db, sess, run>>

-----------------------------------------------------------------------------
(* Python values *)

PyNone == [t |-> "none"]

PyStr(s) == [t |-> "str", v |-> s]

PyInt(i) == [t |-> "int", v |-> i]

Raised(e) == [t |-> "exc", v |-> e]

IsRaised(x) == x.t = "exc"

MaxDepth == 2

MaxDepthConc == 1

MaxInt == 12

Ints == 0..MaxInt

Strs == {"foo", "bar"}

Digit(i) ==
    CASE i = 0 -> "0" [] i = 1 -> "1" [] i = 2 -> "2" [] i = 3 -> "3"
      [] i = 4 -> "4" [] i = 5 -> "5" [] i = 6 -> "6" [] i = 7 -> "7"
      [] i = 8 -> "8" [] i = 9 -> "9"

RECURSIVE Decimal(_)
Decimal(i) == IF i < 10 THEN Digit(i) ELSE Decimal(i \div 10) \o Digit(i % 10)

\* The numeral of an integer, as str(i) and json.dumps(i) write it
IntText(i) == IF i < 0 THEN "-" \o Decimal(-i) ELSE Decimal(i)

\* "%+d" % i
SignedText(i) == IF i < 0 THEN "-" \o Decimal(-i) ELSE "+" \o Decimal(i)

\* text[i - 1], the empty string past the end
Char(text, i) ==
    IF i >= 1 /\ i <= Len(text) THEN SubSeq(text, i, i) ELSE ""

\* text[i - 1 : j], the empty string when it runs past the end
Sub(text, i, j) ==
    IF i >= 1 /\ j <= Len(text) THEN SubSeq(text, i, j) ELSE ""

RECURSIVE Zeros(_)
Zeros(n) == IF n <= 0 THEN "" ELSE "0" \o Zeros(n - 1)

\* str(n).zfill(width)
Pad(n, width) == Zeros(width - Len(Decimal(n))) \o Decimal(n)

\* The result of a parser: the value read and the index after it, or no
\* value
Fail == [ok |-> FALSE]

Ok(v, i) == [ok |-> TRUE, v |-> v, i |-> i]

IsDigit(c) == \E d \in 0..9 : Digit(d) = c

DigitValue(c) == CHOOSE d \in 0..9 : Digit(d) = c

\* The digits from index i on, read as a number that continues acc
RECURSIVE ParseDigits(_, _, _)
ParseDigits(text, i, acc) ==
    IF IsDigit(Char(text, i))
    THEN ParseDigits(text, i + 1, acc * 10 + DigitValue(Char(text, i)))
    ELSE Ok(acc, i)

\* The number written by exactly the width characters from index i on,
\* -1 when they are not all digits
DigitsAt(text, i, width) ==
    LET Exactly(r) == IF r.i = width + 1 THEN r.v ELSE -1
    IN  Exactly(ParseDigits(Sub(text, i, i + width - 1), 1, 0))

\* str(Decimal): the digits of the coefficient with the point placed by
\* the exponent, in scientific notation for a positive exponent or more
\* than six leading zeros
DecimalStr(d) ==
    LET Written(digits, leftdigits, dotplace) ==
            LET intpart ==
                    IF dotplace <= 0 THEN "0"
                    ELSE IF dotplace >= Len(digits)
                    THEN digits \o Zeros(dotplace - Len(digits))
                    ELSE SubSeq(digits, 1, dotplace)
                fracpart ==
                    IF dotplace <= 0 THEN "." \o Zeros(-dotplace) \o digits
                    ELSE IF dotplace >= Len(digits) THEN ""
                    ELSE "." \o SubSeq(digits, dotplace + 1, Len(digits))
                exp == IF leftdigits = dotplace THEN ""
                       ELSE "E" \o SignedText(leftdigits - dotplace)
            IN  (IF d.sign = 1 THEN "-" ELSE "") \o intpart \o fracpart \o exp
        Placed(digits, leftdigits) ==
            Written(digits, leftdigits,
                    IF d.exp <= 0 /\ leftdigits > -6 THEN leftdigits ELSE 1)
        Digits(digits) == Placed(digits, d.exp + Len(digits))
    IN  Digits(Decimal(d.coeff))

\* datetime.isoformat()
Isoformat(d) ==
    Pad(d.year, 4) \o "-" \o Pad(d.month, 2) \o "-" \o Pad(d.day, 2)
      \o "T" \o Pad(d.hour, 2) \o ":" \o Pad(d.minute, 2)
      \o ":" \o Pad(d.second, 2)
      \o (IF d.microsecond # 0 THEN "." \o Pad(d.microsecond, 6) ELSE "")
      \o (IF d.utcoffset = PyNone THEN ""
          ELSE LET minutes == d.utcoffset.v
                   m == IF minutes < 0 THEN -minutes ELSE minutes
               IN  (IF minutes < 0 THEN "-" ELSE "+")
                     \o Pad(m \div 60, 2) \o ":" \o Pad(m % 60, 2))

\* str(value)
Str(value) ==
    CASE value.t = "none" -> PyStr("None")
      [] value.t = "int" -> PyStr(IntText(value.v))
      [] value.t = "decimal" -> PyStr(DecimalStr(value))
      [] value.t = "str" -> value

\* int(value) of a string: an optional sign and digits
Int_(value) ==
    LET text == value.v
        Number(start, r) ==
            IF r.i = start \/ r.i # Len(text) + 1 THEN Raised("ValueError")
            ELSE PyInt(IF Char(text, 1) = "-" THEN -r.v ELSE r.v)
        Sign(start) == Number(start, ParseDigits(text, start, 0))
    IN  Sign(IF Char(text, 1) \in {"-", "+"} THEN 2 ELSE 1)

\* Decimal(value) of a string: sign, digits with an optional point, and an
\* optional exponent
DecimalOf(value) ==
    LET text == value.v
        Made(start, intpart, fracpart, first, exp) ==
            LET point == Char(text, intpart.i) = "."
                fraclen == IF point THEN fracpart.i - (intpart.i + 1) ELSE 0
                exponent == Char(text, fracpart.i) \in {"E", "e"}
                end == IF exponent THEN exp.i ELSE fracpart.i
                e == IF ~exponent THEN 0
                     ELSE IF Char(text, fracpart.i + 1) = "-" THEN -exp.v
                     ELSE exp.v
            IN  IF \/ (intpart.i = start /\ fraclen = 0)
                   \/ (exponent /\ exp.i = first)
                   \/ end # Len(text) + 1
                THEN Raised("InvalidOperation")
                ELSE [t |-> "decimal",
                      sign |-> IF Char(text, 1) = "-" THEN 1 ELSE 0,
                      coeff |-> fracpart.v,
                      exp |-> e - fraclen]
        Exponent(start, intpart, fracpart, first) ==
            Made(start, intpart, fracpart, first, ParseDigits(text, first, 0))
        Fraction(start, intpart, fracpart) ==
            Exponent(start, intpart, fracpart,
                     IF Char(text, fracpart.i + 1) \in {"-", "+"}
                     THEN fracpart.i + 2 ELSE fracpart.i + 1)
        Integer(start, intpart) ==
            Fraction(start, intpart,
                     IF Char(text, intpart.i) = "."
                     THEN ParseDigits(text, intpart.i + 1, intpart.v)
                     ELSE intpart)
        Sign(start) == Integer(start, ParseDigits(text, start, 0))
    IN  Sign(IF Char(text, 1) \in {"-", "+"} THEN 2 ELSE 1)

\* datetime.fromisoformat(value): YYYY-MM-DD, a separator, HH:MM:SS, then
\* optional microseconds and an optional offset
DatetimeOf(value) ==
    LET text == value.v
        fraction == Char(text, 20) = "."
        rest == IF fraction THEN 27 ELSE 20
        offset == Char(text, rest) \in {"-", "+"}
        Made(fields, hours, minutes) ==
            IF \/ \E ix \in 1..7 : fields[ix] < 0
               \/ Char(text, 5) # "-" \/ Char(text, 8) # "-"
               \/ Char(text, 11) = ""
               \/ Char(text, 14) # ":" \/ Char(text, 17) # ":"
               \/ fields[1] < 1 \/ fields[2] \notin 1..12
               \/ fields[3] \notin 1..31
               \/ fields[4] > 23 \/ fields[5] > 59 \/ fields[6] > 59
               \/ (~offset /\ Len(text) # rest - 1)
               \/ (offset /\ (\/ Len(text) # rest + 5
                              \/ Char(text, rest + 3) # ":"
                              \/ hours \notin 0..23
                              \/ minutes \notin 0..59))
            THEN Raised("ValueError")
            ELSE [t |-> "datetime", year |-> fields[1], month |-> fields[2],
                  day |-> fields[3], hour |-> fields[4], minute |-> fields[5],
                  second |-> fields[6], microsecond |-> fields[7],
                  utcoffset |->
                      IF ~offset THEN PyNone
                      ELSE PyInt(IF Char(text, rest) = "-"
                                 THEN -(hours * 60 + minutes)
                                 ELSE hours * 60 + minutes)]
    IN  Made(<<DigitsAt(text, 1, 4), DigitsAt(text, 6, 2),
               DigitsAt(text, 9, 2), DigitsAt(text, 12, 2),
               DigitsAt(text, 15, 2), DigitsAt(text, 18, 2),
               IF fraction THEN DigitsAt(text, 21, 6) ELSE 0>>,
             DigitsAt(text, rest + 1, 2), DigitsAt(text, rest + 4, 2))

Quoted(s) == "\"" \o s \o "\""

PyBool(b) == [t |-> "bool", v |-> b]

\* A list, and a dict as the sequence of its items
PyList(elements) == [t |-> "list", v |-> elements]

PyDict(items) == [t |-> "dict", v |-> items]

\* The text of a string inside a JSON string literal
RECURSIVE JsonEscape(_)
JsonEscape(text) ==
    IF text = "" THEN ""
    ELSE LET c == Char(text, 1)
         IN  (IF c = "\"" THEN "\\\"" ELSE IF c = "\\" THEN "\\\\" ELSE c)
               \o JsonEscape(SubSeq(text, 2, Len(text)))

\* json.dumps: the text it writes for a value
RECURSIVE JsonText(_)
JsonText(value) ==
    LET RECURSIVE Items(_)
        Items(elements) ==
            IF elements = <<>> THEN ""
            ELSE JsonText(Head(elements))
                   \o (IF Len(elements) > 1
                       THEN ", " \o Items(Tail(elements)) ELSE "")
        RECURSIVE Members(_)
        Members(items) ==
            IF items = <<>> THEN ""
            ELSE Quoted(JsonEscape(Head(items)[1])) \o ": "
                   \o JsonText(Head(items)[2])
                   \o (IF Len(items) > 1
                       THEN ", " \o Members(Tail(items)) ELSE "")
    IN  CASE value.t = "none" -> "null"
          [] value.t = "bool" -> IF value.v THEN "true" ELSE "false"
          [] value.t = "int" -> IntText(value.v)
          [] value.t = "str" -> Quoted(JsonEscape(value.v))
          [] value.t = "list" -> "[" \o Items(value.v) \o "]"
          [] value.t = "dict" -> "{" \o Members(value.v) \o "}"

\* What json.dumps serializes
RECURSIVE Serializable(_)
Serializable(value) ==
    CASE value.t \in {"none", "bool", "int", "str"} -> TRUE
      [] value.t = "list" ->
            \A ix \in DOMAIN value.v : Serializable(value.v[ix])
      [] value.t = "dict" ->
            \A ix \in DOMAIN value.v : Serializable(value.v[ix][2])
      [] OTHER -> FALSE

\* json.dumps
JsonDumps(value) ==
    IF Serializable(value) THEN PyStr(JsonText(value))
    ELSE Raised("TypeError")

RECURSIVE SkipWhitespace(_, _)
SkipWhitespace(text, i) ==
    IF Char(text, i) = " " THEN SkipWhitespace(text, i + 1) ELSE i

\* The rest of a JSON string literal, from after its opening quote
RECURSIVE ParseString(_, _, _)
ParseString(text, i, acc) ==
    LET c == Char(text, i)
    IN  IF c = "" THEN Fail
        ELSE IF c = "\"" THEN Ok(PyStr(acc), i + 1)
        ELSE IF c = "\\"
        THEN IF Char(text, i + 1) \in {"\"", "\\"}
             THEN ParseString(text, i + 2, acc \o Char(text, i + 1))
             ELSE Fail
        ELSE ParseString(text, i + 1, acc \o c)

\* dict[key] = value on the items of a dict
SetItem(items, key, value) ==
    IF \E ix \in DOMAIN items : items[ix][1] = key
    THEN [ix \in DOMAIN items |->
            IF items[ix][1] = key THEN <<key, value>> ELSE items[ix]]
    ELSE Append(items, <<key, value>>)

\* The JSON value that starts at index i
RECURSIVE ParseValue(_, _)
ParseValue(text, i) ==
    LET c == Char(text, i)
        RECURSIVE ParseItems(_, _)
        ParseItems(j, acc) ==
            LET ItemEnd(r, k) ==
                    IF Char(text, k) = "]"
                    THEN Ok(PyList(Append(acc, r.v)), k + 1)
                    ELSE IF Char(text, k) = ","
                    THEN ParseItems(SkipWhitespace(text, k + 1),
                                    Append(acc, r.v))
                    ELSE Fail
                Item(r) ==
                    IF ~r.ok THEN Fail
                    ELSE ItemEnd(r, SkipWhitespace(text, r.i))
            IN  Item(ParseValue(text, j))
        RECURSIVE ParseMembers(_, _)
        ParseMembers(j, acc) ==
            LET MemberEnd(key, r, k) ==
                    IF Char(text, k) = "}"
                    THEN Ok(PyDict(SetItem(acc, key.v.v, r.v)), k + 1)
                    ELSE IF Char(text, k) = ","
                    THEN ParseMembers(SkipWhitespace(text, k + 1),
                                      SetItem(acc, key.v.v, r.v))
                    ELSE Fail
                MemberValue(key, r) ==
                    IF ~r.ok THEN Fail
                    ELSE MemberEnd(key, r, SkipWhitespace(text, r.i))
                Colon(key, colon) ==
                    IF Char(text, colon) # ":" THEN Fail
                    ELSE MemberValue(key,
                             ParseValue(text, SkipWhitespace(text, colon + 1)))
                Key(key) ==
                    IF ~key.ok THEN Fail
                    ELSE Colon(key, SkipWhitespace(text, key.i))
            IN  IF Char(text, j) # "\"" THEN Fail
                ELSE Key(ParseString(text, j + 1, ""))
        Open(open, close, empty) ==
            IF Char(text, open) = close THEN Ok(empty, open + 1)
            ELSE IF close = "]" THEN ParseItems(open, <<>>)
            ELSE ParseMembers(open, <<>>)
        Number(first, number, sign) ==
            IF number.i = first THEN Fail
            ELSE IF Char(text, first) = "0" /\ number.i > first + 1 THEN Fail
            ELSE Ok(PyInt(sign * number.v), number.i)
    IN  IF Sub(text, i, i + 3) = "null" THEN Ok(PyNone, i + 4)
        ELSE IF Sub(text, i, i + 3) = "true" THEN Ok(PyBool(TRUE), i + 4)
        ELSE IF Sub(text, i, i + 4) = "false" THEN Ok(PyBool(FALSE), i + 5)
        ELSE IF c = "\"" THEN ParseString(text, i + 1, "")
        ELSE IF c = "["
        THEN Open(SkipWhitespace(text, i + 1), "]", PyList(<<>>))
        ELSE IF c = "{"
        THEN Open(SkipWhitespace(text, i + 1), "}", PyDict(<<>>))
        ELSE IF c = "-" THEN Number(i + 1, ParseDigits(text, i + 1, 0), -1)
        ELSE IF IsDigit(c) THEN Number(i, ParseDigits(text, i, 0), 1)
        ELSE Fail

\* json.loads
JsonLoads(value) ==
    LET Loaded(r) ==
            IF r.ok /\ SkipWhitespace(value.v, r.i) = Len(value.v) + 1 THEN r.v
            ELSE Raised("JSONDecodeError")
    IN  Loaded(ParseValue(value.v, SkipWhitespace(value.v, 1)))

-----------------------------------------------------------------------------
(* Encoders *)

StringEncoder == [k |-> "String"]

IntEncoder == [k |-> "Int"]

DecimalEncoder == [k |-> "Decimal"]

DatetimeEncoder == [k |-> "Datetime"]

JSONEncoder == [k |-> "JSON"]

ArrayEncoder(element_encoder) == [k |-> "Array", inner |-> element_encoder]

Nullable(inner_encoder) == [k |-> "Nullable", inner |-> inner_encoder]

\* EnumEncoder(enum): the enum is the set of its members
EnumEncoder(enum) == [k |-> "Enum", enum |-> enum]

\* A member of an Enum
Member(name, value) == [t |-> "enum", name |-> name, value |-> value]

\* An encode that writes the member's value
EnumEncodeValue(value) ==
    IF value.t # "enum" THEN Raised("AttributeError")
    ELSE PyStr(value.value)

\* EnumEncoder.encode: value.name
EnumEncode(value) ==
    IF value.t # "enum" THEN Raised("AttributeError")
    ELSE PyStr(value.name)

\* EnumEncoder.decode: self._enum[value]
EnumDecode(enum, value) ==
    IF \E member \in enum : member.name = value.v
    THEN CHOOSE member \in enum : member.name = value.v
    ELSE Raised("KeyError")

\* What a for loop over a value yields
Iterate(value) ==
    CASE value.t = "list" -> value
      [] value.t = "dict" ->
            PyList([ix \in DOMAIN value.v |-> PyStr(value.v[ix][1])])
      [] value.t = "str" ->
            PyList([ix \in 1..Len(value.v) |-> PyStr(Char(value.v, ix))])
      [] OTHER -> Raised("TypeError")

\* The first exception among the elements, if any, else the list of them
ListOf(elements) ==
    IF \E ix \in DOMAIN elements : IsRaised(elements[ix])
    THEN elements[CHOOSE ix \in DOMAIN elements :
                     /\ IsRaised(elements[ix])
                     /\ \A jx \in 1..(ix - 1) : ~IsRaised(elements[jx])]
    ELSE PyList(elements)

RECURSIVE Encode(_, _)
Encode(encoder, value) ==
    LET Dumped(encoded) == IF IsRaised(encoded) THEN encoded
                           ELSE JsonDumps(encoded)
        Elements(elements) ==
            IF IsRaised(elements) THEN elements
            ELSE Dumped(ListOf([ix \in DOMAIN elements.v |->
                                  Encode(encoder.inner, elements.v[ix])]))
    IN  CASE encoder.k = "String" -> value
          [] encoder.k = "Int" -> Str(value)
          [] encoder.k = "Decimal" -> Str(value)
          [] encoder.k = "Datetime" ->
                IF value.t # "datetime" THEN Raised("AttributeError")
                ELSE PyStr(Isoformat(value))
          [] encoder.k = "Array" -> Elements(Iterate(value))
          [] encoder.k = "JSON" -> JsonDumps(value)
          [] encoder.k = "Enum" -> EnumEncode(value)
          [] encoder.k = "Nullable" ->
                IF value = PyNone THEN JsonDumps(value)
                ELSE Dumped(Encode(encoder.inner, value))

RECURSIVE Decode(_, _)
Decode(encoder, value) ==
    LET Elements(elements) ==
            IF IsRaised(elements) THEN elements
            ELSE ListOf([ix \in DOMAIN elements.v |->
                           Decode(encoder.inner, elements.v[ix])])
        Loaded(loaded) ==
            IF IsRaised(loaded) THEN loaded ELSE Elements(Iterate(loaded))
        Unwrapped(loaded_value) ==
            IF IsRaised(loaded_value) \/ loaded_value = PyNone
            THEN loaded_value
            ELSE Decode(encoder.inner, loaded_value)
    IN  CASE encoder.k = "String" -> value
          [] encoder.k = "Int" -> Int_(value)
          [] encoder.k = "Decimal" -> DecimalOf(value)
          [] encoder.k = "Datetime" -> DatetimeOf(value)
          [] encoder.k = "Array" -> Loaded(JsonLoads(value))
          [] encoder.k = "JSON" -> JsonLoads(value)
          [] encoder.k = "Enum" -> EnumDecode(encoder.enum, value)
          [] encoder.k = "Nullable" -> Unwrapped(JsonLoads(value))

\* The values of an encoder's type T
RECURSIVE Domain(_)
Domain(encoder) ==
    CASE encoder.k = "String" -> {PyStr(s) : s \in Strs}
      [] encoder.k = "Int" -> {PyInt(7)}
      [] encoder.k = "Nullable" -> {PyNone} \cup {PyStr("foo")}

MaxItems == 2

\* Strings, some with the characters JSON escapes or gives a meaning to
Texts == {"", "foo", "null", "a\"b", "\\", "[1, 2]"}

\* Enums whose members are named as their values, and not
AnEnum == {Member("FOO", "FOO"), Member("BAR", "BAR")}

Status == {Member("ACTIVE", "active"), Member("INACTIVE", "inactive")}

\* The sequences of at most MaxItems elements of a set
Lists(elements) == UNION {[1..n -> elements] : n \in 0..MaxItems}

\* Values of JSONType: scalars, lists of them, dicts with distinct keys,
\* and a list and a dict inside one another
JsonScalars ==
    {PyNone, PyBool(TRUE), PyBool(FALSE), PyInt(0), PyInt(-3),
     PyStr(""), PyStr("a\"b"), PyStr("null")}

JsonValues ==
    JsonScalars
      \cup {PyList(elements) : elements \in Lists(JsonScalars)}
      \cup {PyDict(<< <<"foo", v>> >>) : v \in JsonScalars}
      \cup {PyDict(<< <<"a\"b", v>>, <<"", PyList(<<v, PyDict(<<>>)>>)>> >>) :
               v \in JsonScalars}
      \cup {PyList(<<PyList(<<>>), PyDict(<< <<"k", PyList(<<v>>)>> >>)>>) :
               v \in JsonScalars}

\* The valid values of an encoder
RECURSIVE Values(_)
Values(encoder) ==
    CASE encoder.k = "String" -> {PyStr(text) : text \in Texts}
      [] encoder.k = "Int" -> {PyInt(i) : i \in (-MaxInt)..MaxInt}
      [] encoder.k = "Decimal" ->
            {[t |-> "decimal", sign |-> sign, coeff |-> coeff, exp |-> exp] :
                sign \in {0, 1}, coeff \in {0, 1, 5, 12, 150}, exp \in (-8)..2}
      [] encoder.k = "Datetime" ->
            {[t |-> "datetime", year |-> year, month |-> month, day |-> 5,
              hour |-> hour, minute |-> 0, second |-> 59,
              microsecond |-> microsecond, utcoffset |-> utcoffset] :
                year \in {1, 2021}, month \in {9, 12}, hour \in {0, 23},
                microsecond \in {0, 120, 999999},
                utcoffset \in {PyNone, PyInt(0), PyInt(-330), PyInt(60)}}
      [] encoder.k = "JSON" -> JsonValues
      [] encoder.k = "Enum" -> encoder.enum
      [] encoder.k = "Array" ->
            {PyList(elements) : elements \in Lists(Values(encoder.inner))}
      [] encoder.k = "Nullable" -> {PyNone} \cup Values(encoder.inner)

\* The encoders, alone and inside one another
Encoders ==
    {StringEncoder, IntEncoder, DecimalEncoder, DatetimeEncoder, JSONEncoder,
     EnumEncoder(AnEnum), EnumEncoder(Status),
     ArrayEncoder(StringEncoder), ArrayEncoder(IntEncoder),
     ArrayEncoder(EnumEncoder(Status)),
     ArrayEncoder(Nullable(StringEncoder)),
     Nullable(StringEncoder), Nullable(IntEncoder), Nullable(DecimalEncoder),
     Nullable(EnumEncoder(AnEnum)), Nullable(JSONEncoder),
     Nullable(ArrayEncoder(StringEncoder)),
     Nullable(Nullable(StringEncoder))}

-----------------------------------------------------------------------------
(* Key registry and tenant encryptors *)

\* The context keys of the configured registry: three stages of one key
\* rotation (k1, then k2 with k1 still readable, then k2 alone) and the
\* router's default key.
ContextKeys == {"c1", "c2", "c3", "default"}

KeyIds(context_key) ==
    CASE context_key = "c1" -> <<"k1">>
      [] context_key = "c2" -> <<"k2", "k1">>
      [] context_key = "c3" -> <<"k2">>
      [] context_key = "default" -> <<"k0">>

\* The beacon secret configured for a tenant, PyNone when there is none
BeaconKey(context_key) ==
    CASE context_key = "c1" -> PyStr("s1")
      [] context_key = "c2" -> PyStr("s2")
      [] OTHER -> PyNone

Range(seq) == {seq[i] : i \in DOMAIN seq}

\* The master keys that wrap the data key of a new ciphertext
EncryptKeyIds(context_key) == {Head(KeyIds(context_key))}

\* The master keys the tenant's decrypting key provider resolves
DecryptKeyIds(context_key) == Range(KeyIds(context_key))

\* SingleTenantEncryptor.encrypt(...)[0]
SingleTenantEncrypt(encryptor, encryption_context_key, plaintext) ==
    IF plaintext.t # "str" THEN Raised("NotSupportedError")
    ELSE [t |-> "bytes",
          keys |-> EncryptKeyIds(encryptor),
          microcosm |-> encryption_context_key,
          pt |-> plaintext.v]

\* encrypt(...)[1] read from the registry entry instead of the header
ConfiguredKeyIds(encryptor, encryption_context_key, plaintext) ==
    Range(KeyIds(encryptor))

\* SingleTenantEncryptor.encrypt(...)[1]: the key ids unpacked from the
\* encrypted data keys of the ciphertext's header
SingleTenantEncryptKeyIds(encryptor, encryption_context_key, plaintext) ==
    SingleTenantEncrypt(encryptor, encryption_context_key, plaintext).keys

\* A decrypt that unwraps the data key whatever master key wrapped it
DecryptWithAnyKey(encryptor, encryption_context_key, ciphertext) ==
    PyStr(ciphertext.pt)

\* SingleTenantEncryptor.decrypt
SingleTenantDecrypt(encryptor, encryption_context_key, ciphertext) ==
    IF ciphertext.keys \cap DecryptKeyIds(encryptor) = {}
    THEN Raised("DecryptKeyError")
    ELSE PyStr(ciphertext.pt)

\* An encryptor context: the tuple (context, encryptor)
Context(context, encryptor) ==
    [t |-> "tuple", context |-> context, encryptor |-> encryptor]

\* AwsKmsEncryptor.encrypt under the encryptor context c of the caller
AwsKmsEncrypt(c, value) ==
    IF c = PyNone THEN PyNone
    ELSE SingleTenantEncrypt(c.encryptor, c.context, value)

\* A decrypt that hands the bytes back as text when no context is bound
PlainTextDecrypt(c, value) ==
    IF c = PyNone THEN PyStr(value.pt)
    ELSE SingleTenantDecrypt(c.encryptor, c.context, value)

\* AwsKmsEncryptor.decrypt under the encryptor context c of the caller
AwsKmsDecrypt(c, value) ==
    IF c = PyNone THEN Raised("EncryptorNotBound")
    ELSE SingleTenantDecrypt(c.encryptor, c.context, value)

\* AwsKmsEncryptor.beacon: a keyed hash of the encoded value
AwsKmsBeacon(c, value) ==
    IF c = PyNone THEN Raised("EncryptorNotBound")
    ELSE IF BeaconKey(c.encryptor) = PyNone THEN Raised("BeaconKeyNotSet")
    ELSE IF value.t # "str" THEN Raised("TypeError")
    ELSE [t |-> "hmac", key |-> BeaconKey(c.encryptor).v, msg |-> value.v]

\* The encryption context keys a caller passes
EncryptionContextKeys == {"test", "c1", "whatever"}

\* encryptor.encrypt(encryption_context_key, plaintext) on a tenant's
\* encryptor: the ciphertext and the key ids it returns
TenantEncrypt(encryptor, encryption_context_key, plaintext) ==
    /\ run' = [pc |-> "encrypted",
               encryptor |-> encryptor,
               plaintext |-> plaintext,
               ciphertext |-> SingleTenantEncrypt(encryptor,
                                                  encryption_context_key,
                                                  plaintext),
               key_ids |-> SingleTenantEncryptKeyIds(encryptor,
                                                     encryption_context_key,
                                                     plaintext)]
    /\ last' = [op |-> "encrypt", t |-> "t1", key |-> "name",
                value |-> plaintext, pre |-> "Unset", res |-> PyNone,
                c |-> Context(encryption_context_key, encryptor)]
    /\ UNCHANGED <<ctx, tokens, view, obj, db, sess>>

\* encryptor.decrypt(encryption_context_key, ciphertext) on a tenant's
\* encryptor, of the ciphertext encrypted last
TenantDecrypt(encryptor, encryption_context_key) ==
    /\ run.pc = "encrypted"
    /\ last' = [op |-> "decrypt", t |-> "t1", key |-> "name",
                value |-> run.ciphertext, pre |-> "Unset",
                res |-> SingleTenantDecrypt(encryptor, encryption_context_key,
                                            run.ciphertext),
                c |-> Context(encryption_context_key, encryptor)]
    /\ UNCHANGED <<ctx, tokens, view, obj, db, sess, run>>

InitTenant ==
    /\ ctx = [t \in {"t1", "t2"} |-> PyNone]
    /\ tokens = [t \in {"t1", "t2"} |-> <<>>]
    /\ view = [t \in {"t1", "t2"} |-> <<PyNone>>]
    /\ obj = <<>>
    /\ last = [op |-> "init", t |-> "t1", key |-> "name", value |-> PyNone,
               pre |-> "Unset", res |-> PyNone, c |-> PyNone]
    /\ db = <<>>
    /\ sess = <<>>
    /\ run = [pc |-> "idle"]

NextTenant ==
    \/ \E encryptor \in ContextKeys, s \in Strs,
          encryption_context_key \in EncryptionContextKeys :
          TenantEncrypt(encryptor, encryption_context_key, PyStr(s))
    \/ \E encryptor \in ContextKeys :
          TenantDecrypt(encryptor, "test")

SpecTenant == InitTenant /\ [][NextTenant]_vars

InitEncoders ==
    /\ ctx = [t \in {"t1", "t2"} |-> PyNone]
    /\ tokens = [t \in {"t1", "t2"} |-> <<>>]
    /\ view = [t \in {"t1", "t2"} |-> <<PyNone>>]
    /\ obj = <<>>
    /\ last = [op |-> "init", t |-> "t1", key |-> "name", value |-> PyNone,
               pre |-> "Unset", res |-> PyNone, c |-> PyNone]
    /\ db = <<>>
    /\ sess = <<>>
    /\ \E encoder \in Encoders :
          \E value \in Values(encoder) :
             run = [pc |-> "value", encoder |-> encoder, value |-> value,
                    encoded |-> PyNone, decoded |-> PyNone]

\* encoder.encode(value)
EncoderEncode ==
    /\ run.pc = "value"
    /\ run' = [run EXCEPT !.pc = "encoded",
                          !.encoded = Encode(run.encoder, run.value)]
    /\ UNCHANGED <<ctx, tokens, view, obj, last, db, sess>>

\* encoder.decode(encoded)
EncoderDecode ==
    /\ run.pc = "encoded"
    /\ ~IsRaised(run.encoded)
    /\ run' = [run EXCEPT !.pc = "decoded",
                          !.decoded = Decode(run.encoder, run.encoded)]
    /\ UNCHANGED <<ctx, tokens, view, obj, last, db, sess>>

NextEncoders ==
    \/ EncoderEncode
    \/ EncoderDecode

SpecEncoders == InitEncoders /\ [][NextEncoders]_vars

-----------------------------------------------------------------------------
(* The encrypted field descriptor *)

Fields == {"name", "salary", "description"}

\* No default given to encryption(...)
NOT_SET == [t |-> "NOT_SET"]

\* encryption(key, AwsKmsEncryptor(), encoder, default=...) and whether the
\* model declares <key>_beacon
Descriptor(key) ==
    CASE key = "name" ->
            [encoder |-> StringEncoder, beacon |-> TRUE, default |-> NOT_SET]
      [] key = "salary" ->
            [encoder |-> IntEncoder, beacon |-> FALSE, default |-> NOT_SET]
      [] key = "description" ->
            [encoder |-> Nullable(StringEncoder), beacon |-> FALSE,
             default |-> PyNone]
      [] key = "bio" ->
            [encoder |-> StringEncoder, beacon |-> FALSE,
             default |-> PyStr("")]
      [] key = "title" ->
            [encoder |-> StringEncoder, beacon |-> TRUE,
             default |-> PyStr("")]

\* The slots of a field nothing has been assigned to
NullSlots == [encrypted |-> PyNone, unencrypted |-> PyNone, beacon |-> PyNone]

\* _prop: the getter, on the instance self, under encryptor context c
Prop(self, key, c) ==
    LET encrypted == self[key].encrypted
    IN  IF encrypted = PyNone THEN self[key].unencrypted
        ELSE LET decrypted == AwsKmsDecrypt(c, encrypted)
             IN  IF IsRaised(decrypted) THEN decrypted
                 ELSE Decode(Descriptor(key).encoder, decrypted)

\* _prop_setter without the reset of the unencrypted slot
PropSetterKeepsUnencrypted(self, key, value, c) ==
    LET encoded == Encode(Descriptor(key).encoder, value)
        encrypted == AwsKmsEncrypt(c, encoded)
    IN  IF IsRaised(encoded) THEN [self |-> self, raised |-> encoded]
        ELSE IF IsRaised(encrypted) THEN [self |-> self, raised |-> encrypted]
        ELSE IF encrypted = PyNone
        THEN [self |-> [self EXCEPT ![key] =
                           [unencrypted |-> value,
                            encrypted |-> PyNone,
                            beacon |-> PyNone]],
              raised |-> PyNone]
        ELSE LET stored == [self EXCEPT ![key].encrypted = encrypted]
                 beacon == AwsKmsBeacon(c, encoded)
             IN  IF ~Descriptor(key).beacon
                 THEN [self |-> stored, raised |-> PyNone]
                 ELSE IF IsRaised(beacon)
                 THEN [self |-> stored, raised |-> beacon]
                 ELSE [self |-> [stored EXCEPT ![key].beacon = beacon],
                       raised |-> PyNone]

\* _prop_setter encrypting the value in place of its encoding
PropSetterEncryptsValue(self, key, value, c) ==
    LET encoded == Encode(Descriptor(key).encoder, value)
        encrypted == AwsKmsEncrypt(c, value)
    IN  IF IsRaised(encoded) THEN [self |-> self, raised |-> encoded]
        ELSE IF IsRaised(encrypted) THEN [self |-> self, raised |-> encrypted]
        ELSE IF encrypted = PyNone
        THEN [self |-> [self EXCEPT ![key] =
                           [unencrypted |-> value,
                            encrypted |-> PyNone,
                            beacon |-> PyNone]],
              raised |-> PyNone]
        ELSE LET stored == [self EXCEPT ![key].encrypted = encrypted,
                                        ![key].unencrypted = PyNone]
                 beacon == AwsKmsBeacon(c, encoded)
             IN  IF ~Descriptor(key).beacon
                 THEN [self |-> stored, raised |-> PyNone]
                 ELSE IF IsRaised(beacon)
                 THEN [self |-> stored, raised |-> beacon]
                 ELSE [self |-> [stored EXCEPT ![key].beacon = beacon],
                       raised |-> PyNone]

\* _prop_setter without the reset of the encrypted slot and of the beacon
PropSetterKeepsEncrypted(self, key, value, c) ==
    LET encoded == Encode(Descriptor(key).encoder, value)
        encrypted == AwsKmsEncrypt(c, encoded)
    IN  IF IsRaised(encoded) THEN [self |-> self, raised |-> encoded]
        ELSE IF IsRaised(encrypted) THEN [self |-> self, raised |-> encrypted]
        ELSE IF encrypted = PyNone
        THEN [self |-> [self EXCEPT ![key].unencrypted = value],
              raised |-> PyNone]
        ELSE LET stored == [self EXCEPT ![key].encrypted = encrypted,
                                        ![key].unencrypted = PyNone]
                 beacon == AwsKmsBeacon(c, encoded)
             IN  IF ~Descriptor(key).beacon
                 THEN [self |-> stored, raised |-> PyNone]
                 ELSE IF IsRaised(beacon)
                 THEN [self |-> stored, raised |-> beacon]
                 ELSE [self |-> [stored EXCEPT ![key].beacon = beacon],
                       raised |-> PyNone]

\* _prop_setter: the instance after the assignment, and what it raised
PropSetter(self, key, value, c) ==
    LET Assigned(encoded) ==
            LET encrypted == AwsKmsEncrypt(c, encoded)
                stored == [self EXCEPT ![key].encrypted = encrypted,
                                       ![key].unencrypted = PyNone]
                beacon == AwsKmsBeacon(c, encoded)
            IN  IF IsRaised(encoded) THEN [self |-> self, raised |-> encoded]
                ELSE IF IsRaised(encrypted)
                THEN [self |-> self, raised |-> encrypted]
                ELSE IF encrypted = PyNone
                THEN [self |-> [self EXCEPT ![key] =
                                   [unencrypted |-> value,
                                    encrypted |-> PyNone,
                                    beacon |-> PyNone]],
                      raised |-> PyNone]
                ELSE IF ~Descriptor(key).beacon
                THEN [self |-> stored, raised |-> PyNone]
                ELSE IF IsRaised(beacon)
                THEN [self |-> stored, raised |-> beacon]
                ELSE [self |-> [stored EXCEPT ![key].beacon = beacon],
                      raised |-> PyNone]
    IN  Assigned(Encode(Descriptor(key).encoder, value))

\* Plaintext, Encrypted, or neither slot set
SlotState(slots) ==
    IF slots.encrypted # PyNone THEN "Encrypted"
    ELSE IF slots.unencrypted # PyNone THEN "Plaintext"
    ELSE "Unset"

-----------------------------------------------------------------------------
(* The encryptor context: a ContextVar, one value per thread or task *)

Threads == {"t1", "t2"}

\* A variable shared by every thread in place of a ContextVar
GlobalVarSet(var, t, value) == [u \in DOMAIN var |-> value]

\* ContextVar.set in thread t; the token holds the value it replaces
ContextVarSet(var, t, value) == [var EXCEPT ![t] = value]

\* A reset that unbinds in place of restoring the token's value
ContextVarClear(var, t, token) == [var EXCEPT ![t] = PyNone]

\* ContextVar.reset(token) in thread t
ContextVarReset(var, t, token) == [var EXCEPT ![t] = token]

\* AwsKmsEncryptor.encryptor_context, read in thread t
EncryptorContext(t) == ctx[t]

NoOp == [op |-> "init", t |-> "t1", key |-> "name", value |-> PyNone,
         pre |-> "Unset", res |-> PyNone, c |-> PyNone]

Front(seq) == SubSeq(seq, 1, Len(seq) - 1)

Last(seq) == seq[Len(seq)]

\* with AwsKmsEncryptor.set_encryptor_context(context, encryptor): entered
EnterScope(t, context, encryptor, depth) ==
    /\ Len(tokens[t]) < depth
    /\ tokens' = [tokens EXCEPT ![t] = Append(@, ctx[t])]
    /\ ctx' = ContextVarSet(ctx, t, Context(context, encryptor))
    /\ view' = [view EXCEPT ![t] = Append(@, Context(context, encryptor))]
    /\ last' = [NoOp EXCEPT !.op = "enter", !.t = t, !.c = ctx[t]]
    /\ UNCHANGED <<obj, db, sess, run>>

\* the scope left, normally or by an exception raised in its body:
\* the finally clause resets the token either way
ExitScope(t, raising) ==
    /\ Len(tokens[t]) > 0
    /\ ctx' = ContextVarReset(ctx, t, Last(tokens[t]))
    /\ tokens' = [tokens EXCEPT ![t] = Front(@)]
    /\ view' = [view EXCEPT ![t] = Front(@)]
    /\ last' = [NoOp EXCEPT !.op = "exit", !.t = t, !.c = ctx[t],
                            !.res = IF raising THEN Raised("Exception")
                                    ELSE PyNone]
    /\ UNCHANGED <<obj, db, sess, run>>

\* AwsKmsEncryptor.set_encryptor_context(context, encryptor), set and forget:
\* the context manager it returns is dropped
SetEncryptorContext(t, context, encryptor) ==
    /\ ctx[t] # Context(context, encryptor)
    /\ ctx' = ContextVarSet(ctx, t, Context(context, encryptor))
    /\ view' = [view EXCEPT ![t] = [@ EXCEPT ![Len(@)] =
                                        Context(context, encryptor)]]
    /\ last' = [NoOp EXCEPT !.op = "bind", !.t = t, !.c = ctx[t]]
    /\ UNCHANGED <<tokens, obj, db, sess, run>>

\* instance.<key> = value in thread t
Write(t, key, value) ==
    LET set == PropSetter(obj, key, value, EncryptorContext(t))
    IN  /\ obj' = set.self
        /\ last' = [op |-> "set", t |-> t, key |-> key, value |-> value,
                    pre |-> SlotState(obj[key]), res |-> set.raised,
                    c |-> ctx[t]]
        /\ UNCHANGED <<ctx, tokens, view, db, sess, run>>

\* instance.<key> read in thread t
Read(t, key) ==
    /\ last' = [op |-> "get", t |-> t, key |-> key, value |-> PyNone,
                pre |-> SlotState(obj[key]),
                res |-> Prop(obj, key, EncryptorContext(t)),
                c |-> ctx[t]]
    /\ UNCHANGED <<ctx, tokens, view, obj, db, sess, run>>

InitThreads ==
    /\ ctx = [t \in Threads |-> PyNone]
    /\ tokens = [t \in Threads |-> <<>>]
    /\ view = [t \in Threads |-> <<PyNone>>]
    /\ obj = [key \in Fields |-> NullSlots]
    /\ last = NoOp
    /\ db = <<>>
    /\ sess = <<>>
    /\ run = [pc |-> "idle"]

\* One request at a time: the field descriptor under every context
FieldTenants == {"c1", "c3"}

\* What a caller may assign: a value of the field's type, or None
Assignable(key) == Domain(Descriptor(key).encoder) \cup {PyNone}

NextField ==
    \E t \in {"t1"} :
        \/ \E e \in FieldTenants : EnterScope(t, "test", e, MaxDepth)
        \/ \E raising \in BOOLEAN : ExitScope(t, raising)
        \/ \E e \in FieldTenants : SetEncryptorContext(t, "test", e)
        \/ \E key \in Fields :
              \E value \in Assignable(key) : Write(t, key, value)
        \/ \E key \in Fields : Read(t, key)

SpecField == InitThreads /\ [][NextField]_vars

\* AwsKmsEncryptor.should_encrypt
ShouldEncrypt(c) == c # PyNone

\* The column defaults of encrypted() and unencrypted(), realized for the
\* columns that are null when the row is inserted; beacon() has none
ColumnDefaults(slots, key, c) ==
    LET default == Descriptor(key).default
    IN  IF default = NOT_SET THEN slots
        ELSE [encrypted |->
                 IF slots.encrypted # PyNone THEN slots.encrypted
                 ELSE IF ShouldEncrypt(c)
                 THEN AwsKmsEncrypt(c, Encode(Descriptor(key).encoder, default))
                 ELSE PyNone,
              unencrypted |->
                 IF slots.unencrypted # PyNone THEN slots.unencrypted
                 ELSE IF ShouldEncrypt(c) THEN PyNone
                 ELSE default,
              beacon |-> slots.beacon]

\* session.flush() in thread t: the pending instance is inserted with its
\* column defaults realized; a persistent instance is updated as it is
Flush(t) ==
    LET flushed == IF db = <<>>
                   THEN [key \in DOMAIN obj |->
                           ColumnDefaults(obj[key], key, EncryptorContext(t))]
                   ELSE obj
    IN  /\ obj' = flushed
        /\ db' = flushed
        /\ last' = [NoOp EXCEPT !.op = IF db = <<>> THEN "insert" ELSE "update",
                                !.t = t, !.c = ctx[t], !.value = obj]
        /\ UNCHANGED <<ctx, tokens, view, sess, run>>

\* A model whose fields declare defaults, with and without a beacon
DefaultFields == {"bio", "title"}

InitDefault ==
    /\ ctx = [t \in Threads |-> PyNone]
    /\ tokens = [t \in Threads |-> <<>>]
    /\ view = [t \in Threads |-> <<PyNone>>]
    /\ obj = [key \in DefaultFields |-> NullSlots]
    /\ last = NoOp
    /\ db = <<>>
    /\ sess = <<>>
    /\ run = [pc |-> "idle"]

NextDefault ==
    \E t \in {"t1"} :
        \/ \E e \in FieldTenants : EnterScope(t, "test", e, MaxDepthConc)
        \/ \E raising \in BOOLEAN : ExitScope(t, raising)
        \/ \E key \in DefaultFields : Write(t, key, PyStr("foo"))
        \/ \E key \in DefaultFields : Read(t, key)
        \/ Flush(t)

SpecDefault == InitDefault /\ [][NextDefault]_vars

\* A comparator that never takes the beacon flow
NeverUseBeacon(c) == FALSE

\* BeaconComparator._check_if_should_use_beacon: encrypt_fn("test") is
\* not None
CheckIfShouldUseBeacon(c) == AwsKmsEncrypt(c, PyStr("test")) # PyNone

\* BeaconComparator._beaconise
Beaconise(key, value, c) ==
    LET encoded == Encode(Descriptor(key).encoder, value)
    IN  IF IsRaised(encoded) THEN encoded ELSE AwsKmsBeacon(c, encoded)

\* A clause of a query: the column it compares and the values it accepts
Clause(column, values) ==
    [t |-> "clause", column |-> column, values |-> values]

\* The beacon flow of __eq__ and of operate(in_op, ...): the beacon column
\* against the beacons of the values; what _beaconise raises is raised
BeaconClause(key, others, c) ==
    LET beacons == {Beaconise(key, other, c) : other \in others}
    IN  IF \E b \in beacons : IsRaised(b)
        THEN CHOOSE b \in beacons : IsRaised(b)
        ELSE Clause("beacon", beacons)

\* A comparison that encrypts the value and compares the ciphertexts
EncryptedClause(key, others, c) ==
    Clause("encrypted",
           {AwsKmsEncrypt(c, Encode(Descriptor(key).encoder, other)) :
               other \in others})

\* The comparator of a field with no beacon: the unencrypted column
UnencryptedClause(key, others, c) == Clause("unencrypted", others)

\* Model.<key> == other and Model.<key>.in_(others), through
\* _prop_comparator: the clause built under encryptor context c
Compare(key, others, c) ==
    IF Descriptor(key).beacon
    THEN IF CheckIfShouldUseBeacon(c)
         THEN BeaconClause(key, others, c)
         ELSE Clause("unencrypted", others)
    ELSE UnencryptedClause(key, others, c)

\* The row satisfies the clause: a null column satisfies none
Selects(clause, slots) ==
    /\ slots[clause.column] # PyNone
    /\ slots[clause.column] \in clause.values

\* session.query(Model).filter(Model.<key> == other) and
\* .filter(Model.<key>.in_(others)) in thread t: the clause and whether it
\* selects the instance
Search(t, op, key, others) ==
    LET clause == Compare(key, others, EncryptorContext(t))
    IN  /\ last' = [op |-> op, t |-> t, key |-> key,
                    value |-> [t |-> "list", v |-> others],
                    pre |-> SlotState(obj[key]),
                    res |-> IF IsRaised(clause) THEN clause
                            ELSE [clause EXCEPT !.t =
                                    IF Selects(clause, obj[key])
                                    THEN "selected" ELSE "empty"],
                    c |-> ctx[t]]
        /\ UNCHANGED <<ctx, tokens, view, obj, db, sess, run>>

\* Tenants with beacon secrets of their own, and one with none
SearchTenants == {"c1", "c2", "c3"}

\* The values searched for
Literals(key) == Domain(Descriptor(key).encoder)

NextSearch ==
    \E t \in {"t1"} :
        \/ \E e \in SearchTenants : EnterScope(t, "test", e, MaxDepthConc)
        \/ \E raising \in BOOLEAN : ExitScope(t, raising)
        \/ \E key \in {"name", "salary"} :
              \E value \in Literals(key) : Write(t, key, value)
        \/ \E key \in {"name", "salary"} :
              \E other \in Literals(key) : Search(t, "eq", key, {other})
        \/ \E key \in {"name", "salary"} :
              \E others \in SUBSET Literals(key) :
                 others # {} /\ Search(t, "in", key, others)

SpecSearch == InitThreads /\ [][NextSearch]_vars

\* Two requests at a time, each in a thread of its own
NextCtx ==
    \E t \in Threads :
        \/ \E e \in FieldTenants : EnterScope(t, "test", e, MaxDepthConc)
        \/ \E raising \in BOOLEAN : ExitScope(t, raising)
        \/ \E e \in FieldTenants : SetEncryptorContext(t, "test", e)
        \/ Write(t, "name", PyStr("foo"))
        \/ Read(t, "name")

SpecCtx == InitThreads /\ [][NextCtx]_vars

-----------------------------------------------------------------------------
(* The key registry and the multi-tenant encryptor built from it *)

MaxLen == 3

\* Configuration strings are sequences of characters
Characters == {"a", "b", ";"}

Strings == UNION {[1..n -> Characters] : n \in 0..MaxLen}

\* A field of the configuration: a string, or a list of strings
StrField(s) == [t |-> "str", v |-> s]

ListField(l) == [t |-> "list", v |-> l]

\* str.split(sep) that keeps the string whole
KeepWhole(s, sep) == <<s>>

RECURSIVE SplitFrom(_, _, _)
SplitFrom(s, sep, segment) ==
    IF s = <<>> THEN <<segment>>
    ELSE IF Head(s) = sep
    THEN <<segment>> \o SplitFrom(Tail(s), sep, <<>>)
    ELSE SplitFrom(Tail(s), sep, Append(segment, Head(s)))

\* str.split(sep)
Split(s, sep) == SplitFrom(s, sep, <<>>)

\* key_id.split(";") if isinstance(key_id, str) else key_id
SplitField(field) ==
    IF field.t = "str" THEN Split(field.v, ";") ELSE field.v

Min(a, b) == IF a < b THEN a ELSE b

\* parse_config: zip stops at the shortest list and a later entry of a
\* context key replaces an earlier one
ParseConfig(context_keys, key_ids, account_ids, partitions, restricted_kms_policy) ==
    LET n == Min(Min(Len(context_keys), Len(key_ids)),
                 Min(Len(account_ids), Len(partitions)))
        IndexOf(context_key) ==
            CHOOSE ix \in 1..n :
               /\ context_keys[ix] = context_key
               /\ \A jx \in 1..n : context_keys[jx] = context_key => jx <= ix
    IN  [context_key \in {context_keys[ix] : ix \in 1..n} |->
            LET ix == IndexOf(context_key)
            IN  [key_ids |-> SplitField(key_ids[ix]),
                 account_ids |-> SplitField(account_ids[ix]),
                 partition |-> partitions[ix],
                 restricted |->
                    IF ix <= Len(restricted_kms_policy)
                    THEN restricted_kms_policy[ix] = "true"
                    ELSE FALSE]]

\* SingleTenantEncryptor(...): what its key providers are configured with
SingleTenantEncryptor(context_data) ==
    [t |-> "SingleTenantEncryptor",
     encrypting |-> [key_ids |-> context_data.key_ids,
                     restricted |-> context_data.restricted],
     decrypting |-> [account_ids |-> context_data.account_ids,
                     partition |-> context_data.partition,
                     key_ids |-> context_data.key_ids]]

\* make_encryptor that adds an encryptor under the default key
MakeEncryptorWithDefault(keys) ==
    [context_key \in DOMAIN keys \cup {"default"} |->
        IF context_key \in DOMAIN keys
        THEN SingleTenantEncryptor(keys[context_key])
        ELSE SingleTenantEncryptor([key_ids |-> <<>>, account_ids |-> <<>>,
                                    partition |-> "aws",
                                    restricted |-> FALSE])]

\* MultiTenantKeyRegistry.make_encryptor: the encryptors of the
\* MultiTenantEncryptor it returns
MakeEncryptor(keys) ==
    [context_key \in DOMAIN keys |-> SingleTenantEncryptor(keys[context_key])]

\* MultiTenantEncryptor.__contains__
Contains(encryptors, encryption_context_key) ==
    \/ encryption_context_key \in DOMAIN encryptors
    \/ "default" \in DOMAIN encryptors

\* __getitem__ with no fallback to the default key
GetItemExact(encryptors, encryption_context_key) ==
    IF encryption_context_key \in DOMAIN encryptors
    THEN encryptors[encryption_context_key]
    ELSE Raised("KeyError")

\* MultiTenantEncryptor.__getitem__
GetItem(encryptors, encryption_context_key) ==
    IF encryption_context_key \in DOMAIN encryptors
    THEN encryptors[encryption_context_key]
    ELSE IF "default" \in DOMAIN encryptors
    THEN encryptors["default"]
    ELSE Raised("KeyError")

\* The configurations: one field of every list per context key, the first
\* key_ids field any string or a list, and fewer restricted flags than
\* context keys
ContextKeyLists ==
    {<<>>, <<"c1">>, <<"default">>, <<"c1", "default">>, <<"c1", "c2">>}

KeyIdFields ==
    {StrField(s) : s \in Strings} \cup {ListField(<< <<"b">>, <<"a">> >>)}

AccountIdFields ==
    {StrField(<<"a", ";", "b">>), ListField(<< <<"a">>, <<"b">> >>)}

Configs ==
    {[context_keys |-> context_keys,
      key_ids |-> [ix \in DOMAIN context_keys |->
                     IF ix = 1 THEN key_id
                     ELSE ListField(<< <<"b">>, <<"a">> >>)],
      account_ids |-> [ix \in DOMAIN context_keys |-> account_id],
      partitions |-> [ix \in DOMAIN context_keys |-> "aws"],
      restricted_kms_policy |-> restricted_kms_policy] :
        context_keys \in ContextKeyLists,
        key_id \in KeyIdFields,
        account_id \in AccountIdFields,
        restricted_kms_policy \in {<<>>, <<"true">>}}

\* The keys looked up
LookupKeys == {"c1", "c2", "default", "whatever"}

InitRegistry ==
    /\ ctx = [t \in Threads |-> PyNone]
    /\ tokens = [t \in Threads |-> <<>>]
    /\ view = [t \in Threads |-> <<PyNone>>]
    /\ obj = [key \in Fields |-> NullSlots]
    /\ last = NoOp
    /\ db = <<>>
    /\ sess = <<>>
    /\ \E config \in Configs :
          run = [pc |-> "config", config |-> config, keys |-> <<>>,
                 encryptors |-> <<>>]

\* MultiTenantKeyRegistry.__init__
RegistryInit ==
    /\ run.pc = "config"
    /\ run' = [run EXCEPT
                  !.pc = "parsed",
                  !.keys = ParseConfig(run.config.context_keys,
                                       run.config.key_ids,
                                       run.config.account_ids,
                                       run.config.partitions,
                                       run.config.restricted_kms_policy)]
    /\ UNCHANGED <<ctx, tokens, view, obj, last, db, sess>>

\* graph.multi_tenant_encryptor: make_encryptor(graph)
RegistryMakeEncryptor ==
    /\ run.pc = "parsed"
    /\ run' = [run EXCEPT !.pc = "built",
                          !.encryptors = MakeEncryptor(run.keys)]
    /\ UNCHANGED <<ctx, tokens, view, obj, last, db, sess>>

\* multi_tenant_encryptor[key] and key in multi_tenant_encryptor
Lookup(encryption_context_key) ==
    /\ run.pc = "built"
    /\ last' = [NoOp EXCEPT
                   !.op = "lookup",
                   !.key = encryption_context_key,
                   !.res = [item |-> GetItem(run.encryptors,
                                             encryption_context_key),
                            contains |-> Contains(run.encryptors,
                                                  encryption_context_key)]]
    /\ UNCHANGED <<ctx, tokens, view, obj, db, sess, run>>

NextRegistry ==
    \/ RegistryInit
    \/ RegistryMakeEncryptor
    \/ \E encryption_context_key \in LookupKeys :
          Lookup(encryption_context_key)

SpecRegistry == InitRegistry /\ [][NextRegistry]_vars

-----------------------------------------------------------------------------
(* The reencryption command *)

MaxRuns == 2

\* The instance iterators of the command, one per model, and the models'
\* encryption columns in the order of their descriptors
Models == <<"Person", "Note">>

EncryptionColumns(model) ==
    CASE model = "Person" -> <<"name", "salary">>
      [] model = "Note" -> <<"description">>
      [] model = "Contact" -> <<"name">>
      [] OTHER -> <<>>

\* The mapped classes: PersonWithoutEncryption has no encrypted field,
\* TenantModel is an abstract class that cannot be inspected, and Contact
\* derives from it
\* base_model.__subclasses__(): the classes that derive directly
Subclasses(base_model) ==
    CASE base_model = "Model" ->
            {"Person", "Note", "PersonWithoutEncryption", "TenantModel"}
      [] base_model = "TenantModel" -> {"Contact"}
      [] OTHER -> {}

\* _find_models_using_encryption
FindModelsUsingEncryption(base_model) ==
    {model \in Subclasses(base_model) : Len(EncryptionColumns(model)) > 0}

\* _verify_planning_to_handle_all_tables: the check it passes
VerifyPlanningToHandleAllTables(base_model, models_to_encrypt) ==
    FindModelsUsingEncryption(base_model) \ models_to_encrypt = {}

\* _verify_handle_all_tables: the check it passes
VerifyHandleAllTables(base_models_mapping) ==
    \A base_model \in DOMAIN base_models_mapping :
       VerifyPlanningToHandleAllTables(base_model,
                                       base_models_mapping[base_model])

\* The base_models_mapping arguments the command is built with
Plans ==
    {[b \in {"Model"} |-> {"Person", "Note"}],
     [b \in {"Model"} |-> {"Person"}],
     [b \in {"Model"} |-> {"Person", "Note", "Contact"}],
     [b \in {"TenantModel"} |-> {"Contact"}],
     [b \in {"TenantModel"} |-> {}]}

\* An iterator whose query does not filter by client
InstanceIteratorOfAll(model, client_id) ==
    CASE model = "Person" -> <<"p1", "p2", "p3">>
      [] model = "Note" -> <<"n1">>

\* The rows an iterator yields for a client, in the order of its query:
\* p1, p2 and n1 belong to client c2, p3 to client c1
InstanceIterator(model, client_id) ==
    CASE client_id = "c2" /\ model = "Person" -> <<"p1", "p2">>
      [] client_id = "c2" /\ model = "Note" -> <<"n1">>
      [] client_id = "c1" /\ model = "Person" -> <<"p3">>
      [] OTHER -> <<>>

Instances == {"p1", "p2", "p3", "n1"}

ModelOf(instance) == IF instance = "n1" THEN "Note" ELSE "Person"

\* The client_id column of an instance
ClientOf(instance) == IF instance = "p3" THEN "c1" ELSE "c2"

ClientIds == {"c1", "c2", "c9"}

\* graph.multi_tenant_encryptor.encryptors: one entry per registry key
Encryptors == ContextKeys

\* MultiTenantEncryptor.__getitem__
MultiTenantGetItem(encryption_context_key) ==
    GetItem([context_key \in Encryptors |-> context_key],
            encryption_context_key)

\* encryptor_session_context_as_client(graph, client_id): the context it
\* binds for the with block, the encryptor the router resolves for the client
EncryptorSessionContextAsClient(client_id) ==
    Context(client_id, MultiTenantGetItem(client_id))

\* A validation that accepts the router's default entry for any client
HasEntryOrDefault(client_id) ==
    client_id \in Encryptors \/ "default" \in Encryptors

\* _verify_client_has_some_encryption_config: the check it passes
HasEncryptionConfig(client_id) == client_id \in Encryptors

\* Session.commit: everything the session holds becomes the stored rows
Commit(session) == session

\* Session.rollback: the session goes back to the stored rows
Rollback(stored) == stored

\* reencrypt_instance that pays no attention to dry_run
RECURSIVE ReencryptInstanceAlways(_, _, _, _, _, _)
ReencryptInstanceAlways(session, stored, instance, encryption_columns, dry_run, c) ==
    IF encryption_columns = <<>>
    THEN [session |-> session, stored |-> stored,
          found_to_be_unencrypted |-> FALSE, change_commited |-> FALSE,
          raised |-> PyNone]
    ELSE
    LET column_name == Head(encryption_columns)
        found == session[instance][column_name].unencrypted # PyNone
        value == Prop(session[instance], column_name, c)
        set == PropSetter(session[instance], column_name, value, c)
        assigned == [session EXCEPT ![instance] = set.self]
        rest == ReencryptInstanceAlways(assigned, Commit(assigned), instance,
                                        Tail(encryption_columns), dry_run, c)
    IN  IF IsRaised(value)
        THEN [session |-> session, stored |-> stored,
              found_to_be_unencrypted |-> found, change_commited |-> FALSE,
              raised |-> value]
        ELSE IF set.raised # PyNone
        THEN [session |-> assigned, stored |-> stored,
              found_to_be_unencrypted |-> found, change_commited |-> FALSE,
              raised |-> set.raised]
        ELSE [rest EXCEPT
                 !.found_to_be_unencrypted = found \/ @,
                 !.change_commited = IF rest.raised = PyNone THEN TRUE ELSE @]

\* reencrypt_instance: the session and the stored rows after the call,
\* its two results, and what it raised
RECURSIVE ReencryptInstance(_, _, _, _, _, _)
ReencryptInstance(session, stored, instance, encryption_columns, dry_run, c) ==
    IF encryption_columns = <<>>
    THEN [session |-> session, stored |-> stored,
          found_to_be_unencrypted |-> FALSE, change_commited |-> FALSE,
          raised |-> PyNone]
    ELSE
    LET column_name == Head(encryption_columns)
        found == session[instance][column_name].unencrypted # PyNone
        skipped == ReencryptInstance(session, stored, instance,
                                     Tail(encryption_columns), dry_run, c)
        Committed(rest) ==
            [rest EXCEPT
                !.found_to_be_unencrypted = found \/ @,
                !.change_commited = IF rest.raised = PyNone THEN TRUE ELSE @]
        Assigned(set, assigned) ==
            IF set.raised # PyNone
            THEN [session |-> assigned, stored |-> stored,
                  found_to_be_unencrypted |-> found, change_commited |-> FALSE,
                  raised |-> set.raised]
            ELSE Committed(ReencryptInstance(assigned, Commit(assigned), instance,
                                             Tail(encryption_columns), dry_run, c))
        Set(set) == Assigned(set, [session EXCEPT ![instance] = set.self])
        Value(value) ==
            IF IsRaised(value)
            THEN [session |-> session, stored |-> stored,
                  found_to_be_unencrypted |-> found, change_commited |-> FALSE,
                  raised |-> value]
            ELSE Set(PropSetter(session[instance], column_name, value, c))
    IN  IF dry_run
        THEN [skipped EXCEPT !.found_to_be_unencrypted = found \/ @]
        ELSE Value(Prop(session[instance], column_name, c))

\* ReencryptionStatsCollector()
NewCollector ==
    [instances_found_to_be_unencrypted |-> 0,
     instances_reencrypted |-> 0,
     total_instances_found |-> 0,
     model |-> PyNone]

\* An update that counts every instance as reencrypted
CollectorCountsAll(collector, instance, found_to_be_unencrypted, changed_committed) ==
    [instances_found_to_be_unencrypted |->
        collector.instances_found_to_be_unencrypted
            + (IF found_to_be_unencrypted THEN 1 ELSE 0),
     instances_reencrypted |-> collector.instances_reencrypted + 1,
     total_instances_found |-> collector.total_instances_found + 1,
     model |-> IF collector.model = PyNone THEN PyStr(ModelOf(instance))
               ELSE collector.model]

\* ReencryptionStatsCollector.update
CollectorUpdate(collector, instance, found_to_be_unencrypted, changed_committed) ==
    [instances_found_to_be_unencrypted |->
        collector.instances_found_to_be_unencrypted
            + (IF found_to_be_unencrypted THEN 1 ELSE 0),
     instances_reencrypted |->
        collector.instances_reencrypted + (IF changed_committed THEN 1 ELSE 0),
     total_instances_found |-> collector.total_instances_found + 1,
     model |-> IF collector.model = PyNone THEN PyStr(ModelOf(instance))
               ELSE collector.model]

\* ReencryptionStatsCollector.get_statistic
GetStatistic(collector) ==
    [model_name |-> IF collector.model # PyNone THEN collector.model.v
                    ELSE "Unknown",
     total_instances_found |-> collector.total_instances_found,
     instances_found_to_be_unencrypted |->
        collector.instances_found_to_be_unencrypted,
     instances_reencrypted |-> collector.instances_reencrypted]

\* The command runs in the main thread
Main == "t1"

\* _run_validations: the checks it passes
RunValidations(client_id, base_models_mapping) ==
    /\ HasEncryptionConfig(client_id)
    /\ VerifyHandleAllTables(base_models_mapping)

\* reencrypt(args): the arguments, the validations, and the contexts
\* entered. A later run repeats the command of the run before it.
ReencryptStart(client_id, dry_run) ==
    /\ \/ run.pc = "idle"
       \/ /\ run.pc \in {"done", "failed"}
          /\ run.n < MaxRuns
          /\ client_id = run.client_id
          /\ dry_run = run.dry_run
    /\ IF ~RunValidations(client_id, run.base_models_mapping)
       THEN /\ run' = [run EXCEPT !.pc = "failed", !.n = @ + 1,
                                  !.client_id = client_id,
                                  !.dry_run = dry_run,
                                  !.m = 1, !.i = 1,
                                  !.collector = NewCollector,
                                  !.stats = <<>>,
                                  !.raised = Raised("ValueError"),
                                  !.yielded = 0,
                                  !.before = db,
                                  !.earlier = run.pc]
            /\ UNCHANGED <<ctx, tokens, view>>
       ELSE /\ run' = [run EXCEPT !.pc = "iterating", !.n = @ + 1,
                                  !.client_id = client_id,
                                  !.dry_run = dry_run,
                                  !.m = 1, !.i = 1,
                                  !.collector = NewCollector,
                                  !.stats = <<>>,
                                  !.raised = PyNone,
                                  !.yielded = 0,
                                  !.before = db,
                                  !.earlier = run.pc]
            /\ tokens' = [tokens EXCEPT ![Main] = Append(@, ctx[Main])]
            /\ ctx' = ContextVarSet(ctx, Main,
                         EncryptorSessionContextAsClient(client_id))
            /\ view' = [view EXCEPT ![Main] = Append(@,
                         EncryptorSessionContextAsClient(client_id))]
    /\ UNCHANGED <<obj, last, db, sess>>

\* One turn of the inner loop: the iterator's next instance goes through
\* reencrypt_instance. What it raises leaves through transaction(), which
\* rolls the session back, and through the encryptor context's reset.
ReencryptNext ==
    /\ run.pc = "iterating"
    /\ run.i <= Len(InstanceIterator(Models[run.m], run.client_id))
    /\ LET instance == InstanceIterator(Models[run.m], run.client_id)[run.i]
           r == ReencryptInstance(sess, db, instance,
                                  EncryptionColumns(ModelOf(instance)),
                                  run.dry_run, EncryptorContext(Main))
       IN  IF r.raised # PyNone
           THEN /\ db' = r.stored
                /\ sess' = Rollback(r.stored)
                /\ ctx' = ContextVarReset(ctx, Main, Last(tokens[Main]))
                /\ tokens' = [tokens EXCEPT ![Main] = Front(@)]
                /\ view' = [view EXCEPT ![Main] = Front(@)]
                /\ run' = [run EXCEPT !.pc = "failed", !.raised = r.raised,
                                      !.yielded = @ + 1]
           ELSE /\ db' = r.stored
                /\ sess' = r.session
                /\ run' = [run EXCEPT
                              !.i = @ + 1,
                              !.yielded = @ + 1,
                              !.collector = CollectorUpdate(@, instance,
                                  r.found_to_be_unencrypted, r.change_commited)]
                /\ UNCHANGED <<ctx, tokens, view>>
    /\ UNCHANGED <<obj, last>>

\* The iterator is exhausted: the model's statistic is kept and the next
\* iterator, if any, starts with a collector of its own
ReencryptEndModel ==
    /\ run.pc = "iterating"
    /\ run.i > Len(InstanceIterator(Models[run.m], run.client_id))
    /\ run' = [run EXCEPT
                  !.stats = Append(@, GetStatistic(run.collector)),
                  !.collector = NewCollector,
                  !.m = IF run.m < Len(Models) THEN @ + 1 ELSE @,
                  !.i = 1,
                  !.pc = IF run.m < Len(Models) THEN "iterating" ELSE "leaving"]
    /\ UNCHANGED <<ctx, tokens, view, obj, last, db, sess>>

\* The with block is left: transaction() commits, the encryptor context is
\* reset, and the statistics are logged
ReencryptFinish ==
    /\ run.pc = "leaving"
    /\ db' = Commit(sess)
    /\ sess' = sess
    /\ ctx' = ContextVarReset(ctx, Main, Last(tokens[Main]))
    /\ tokens' = [tokens EXCEPT ![Main] = Front(@)]
    /\ view' = [view EXCEPT ![Main] = Front(@)]
    /\ run' = [run EXCEPT !.pc = "done"]
    /\ UNCHANGED <<obj, last>>

\* ", ".join(names)
RECURSIVE JoinNames(_)
JoinNames(names) ==
    IF names = <<>> THEN ""
    ELSE IF Len(names) = 1 THEN Head(names)
    ELSE Head(names) \o ", " \o JoinNames(Tail(names))

\* A line of the log: its message and the values of its extra
LogLine(msg, count, model_name, cols_used) ==
    [msg |-> msg, count |-> count, model_name |-> model_name,
     cols_used |-> cols_used]

\* inspect(model) raises for a class that is not mapped
Inspectable(model) == model # "TenantModel"

\* What _find_models_using_encryption logs: the classes it cannot inspect
UnableToInspect(base_model) ==
    {LogLine("Unable to inspect model: {}", 0, model, "") :
        model \in {m \in Subclasses(base_model) : ~Inspectable(m)}}

\* A report that names each model and leaves its columns out
LogModelNames(models_with_encryption) ==
    IF models_with_encryption = {}
    THEN {LogLine("No models found using encryption.", 0, "", "")}
    ELSE {LogLine("Found {} table(s) with encryption usage:",
                  Cardinality(models_with_encryption), "", "")}
         \cup {LogLine("Model name: {}, Cols used: {}", 0, m, "") :
                  m \in models_with_encryption}

\* _log_reencryption_usage_info: the lines it logs
LogReencryptionUsageInfo(models_with_encryption) ==
    IF models_with_encryption = {}
    THEN {LogLine("No models found using encryption.", 0, "", "")}
    ELSE {LogLine("Found {} table(s) with encryption usage:",
                  Cardinality(models_with_encryption), "", "")}
         \cup {LogLine("Model name: {}, Cols used: {}", 0, m,
                       JoinNames(EncryptionColumns(m))) :
                  m \in models_with_encryption}

\* audit(args): the command runs on its own, when no reencrypt command is
\* running; what it logs is kept as the result of the last operation
Audit ==
    /\ run.pc \in {"idle", "done", "failed"}
    /\ last' = [NoOp EXCEPT
                   !.op = "audit",
                   !.res = UNION {UnableToInspect(base_model)
                                    \cup LogReencryptionUsageInfo(
                                            FindModelsUsingEncryption(base_model)) :
                                  base_model \in DOMAIN run.base_models_mapping}]
    /\ UNCHANGED <<ctx, tokens, view, obj, db, sess, run>>

\* The rows the command may find: every field never assigned, or assigned
\* once with no context, under the client's earlier key, or under a key
\* the client's encryptor does not resolve
SeedValue(key) ==
    CASE key = "name" -> PyStr("foo")
      [] key = "salary" -> PyInt(7)
      [] key = "description" -> PyStr("foo")

SeedContexts == {PyNone, Context("test", "c1"), Context("test", "default")}

SeedSlots(key) ==
    {NullSlots} \cup
    {PropSetter([k \in {key} |-> NullSlots], key, SeedValue(key), c).self[key] :
        c \in SeedContexts}

SeedRows(model) ==
    LET columns == Range(EncryptionColumns(model))
    IN  {row \in [columns -> UNION {SeedSlots(k) : k \in columns}] :
            \A k \in columns : row[k] \in SeedSlots(k)}

\* A row with every field assigned in one context
SeedRowIn(model, c) ==
    [k \in Range(EncryptionColumns(model)) |->
        PropSetter([j \in {k} |-> NullSlots], k, SeedValue(k), c).self[k]]

\* A row with no field assigned
NullRow(model) == [k \in Range(EncryptionColumns(model)) |-> NullSlots]

\* The rows of an instance: p1 has its fields assigned independently of
\* each other, the other instances of the client have all fields assigned
\* in one context or none assigned, and the instance of the other tenant
\* has them assigned with no context or in the tenant's own
SeedRowsOf(instance) ==
    CASE instance = "p1" -> SeedRows(ModelOf(instance))
      [] instance = "p3" ->
            {SeedRowIn(ModelOf(instance), c) :
                c \in {PyNone, Context("test", "c1")}}
      [] OTHER ->
            {NullRow(ModelOf(instance))} \cup
            {SeedRowIn(ModelOf(instance), c) : c \in SeedContexts}

InitReencrypt ==
    /\ ctx = [t \in Threads |-> PyNone]
    /\ tokens = [t \in Threads |-> <<>>]
    /\ view = [t \in Threads |-> <<PyNone>>]
    /\ obj = [key \in Fields |-> NullSlots]
    /\ last = NoOp
    /\ \E p1 \in SeedRowsOf("p1"), p2 \in SeedRowsOf("p2"),
          p3 \in SeedRowsOf("p3"), n1 \in SeedRowsOf("n1") :
          db = [i \in Instances |->
                  CASE i = "p1" -> p1 [] i = "p2" -> p2
                    [] i = "p3" -> p3 [] i = "n1" -> n1]
    /\ sess = db
    /\ \E plan \in Plans :
       run = [pc |-> "idle", n |-> 0, client_id |-> "c1", dry_run |-> TRUE,
               m |-> 1, i |-> 1, collector |-> NewCollector, stats |-> <<>>,
               raised |-> PyNone, yielded |-> 0, before |-> db,
               earlier |-> "idle", base_models_mapping |-> plan]

NextReencrypt ==
    \/ \E client_id \in ClientIds, dry_run \in BOOLEAN :
          ReencryptStart(client_id, dry_run)
    \/ ReencryptNext
    \/ ReencryptEndModel
    \/ ReencryptFinish
    \/ Audit

SpecReencrypt == InitReencrypt /\ [][NextReencrypt]_vars

\* The key rotation of one record: it is added under a tenant, read under
\* any tenant, and passed to reencrypt_instance under any tenant

MaxSteps == 3

\* The encryption columns of the record
RotationColumns == {<<"name", "salary">>, <<"salary">>, <<"description">>}

\* with set_encryptor_context("test", encryptor): session.add(Person(...))
\* with every column assigned, and session.commit()
RotationAdd(encryptor, columns) ==
    /\ run.pc = "idle"
    /\ LET c == Context("test", encryptor)
           row == [k \in Range(columns) |->
                     PropSetter([j \in {k} |-> NullSlots], k, SeedValue(k), c)]
       IN  /\ \A k \in Range(columns) : row[k].raised = PyNone
           /\ sess' = [i \in {"p1"} |-> [k \in Range(columns) |-> row[k].self[k]]]
           /\ db' = sess'
           /\ run' = [pc |-> "stored", columns |-> columns,
                      trace |-> <<encryptor>>]
           /\ last' = [NoOp EXCEPT !.op = "add", !.c = c]
    /\ UNCHANGED <<ctx, tokens, view, obj>>

\* with set_encryptor_context("test", encryptor): person.<key> on the
\* record queried in a new session
RotationRead(encryptor, key) ==
    /\ run.pc = "stored"
    /\ key \in Range(run.columns)
    /\ last' = [NoOp EXCEPT
                   !.op = "get", !.key = key,
                   !.c = Context("test", encryptor),
                   !.res = Prop(db["p1"], key, Context("test", encryptor))]
    /\ UNCHANGED <<ctx, tokens, view, obj, db, sess, run>>

\* with set_encryptor_context("test", encryptor): reencrypt_instance on the
\* record queried in a new session, then session.commit(). What it raises
\* leaves the with block, and the session is dropped with what it had not
\* committed.
RotationReencrypt(encryptor) ==
    /\ run.pc = "stored"
    /\ Len(run.trace) < MaxSteps
    /\ \E r \in {ReencryptInstance(db, db, "p1", run.columns, FALSE,
                                    Context("test", encryptor))} :
          /\ db' = r.stored
          /\ sess' = r.stored
          /\ run' = [run EXCEPT !.trace = IF r.raised = PyNone
                                          THEN Append(@, encryptor) ELSE @]
          /\ last' = [NoOp EXCEPT !.op = "reencrypt",
                                  !.c = Context("test", encryptor),
                                  !.res = r.raised]
    /\ UNCHANGED <<ctx, tokens, view, obj>>

InitRotation ==
    /\ ctx = [t \in Threads |-> PyNone]
    /\ tokens = [t \in Threads |-> <<>>]
    /\ view = [t \in Threads |-> <<PyNone>>]
    /\ obj = [key \in Fields |-> NullSlots]
    /\ last = NoOp
    /\ db = <<>>
    /\ sess = <<>>
    /\ run = [pc |-> "idle"]

NextRotation ==
    \/ \E encryptor \in ContextKeys, columns \in RotationColumns :
          RotationAdd(encryptor, columns)
    \/ \E encryptor \in ContextKeys, key \in Fields :
          RotationRead(encryptor, key)
    \/ \E encryptor \in ContextKeys : RotationReencrypt(encryptor)

SpecRotation == InitRotation /\ [][NextRotation]_vars

\* Requests served one after another by each thread of a server, with the
\* hook of register_flask_context run before each

MaxRequests == 3

\* The client header of a request: absent, or a client id
ClientHeaders == {PyNone, PyStr("c1"), PyStr("c2")}

\* set_context_from_graph(graph), run before the request of thread t whose
\* client header is client_id: nothing is bound or unbound with no header,
\* and the context manager of set_encryptor_context is dropped
SetContextFromGraph(t, client_id) ==
    /\ run.pc[t] = "idle"
    /\ run.n < MaxRequests
    /\ IF client_id = PyNone
       THEN UNCHANGED <<ctx, view>>
       ELSE /\ ctx' = ContextVarSet(ctx, t,
                          Context(client_id.v, MultiTenantGetItem(client_id.v)))
            /\ view' = [view EXCEPT ![t] = [@ EXCEPT ![Len(@)] =
                          Context(client_id.v, MultiTenantGetItem(client_id.v))]]
    /\ run' = [run EXCEPT !.pc[t] = "handling", !.header[t] = client_id,
                          !.n = @ + 1]
    /\ last' = [NoOp EXCEPT !.op = "request", !.t = t, !.c = ctx[t]]
    /\ UNCHANGED <<tokens, obj, db, sess>>

\* The view of the request assigns a field
RequestWrite(t, key, value) ==
    /\ run.pc[t] = "handling"
    /\ Write(t, key, value)

\* The response is sent: nothing of the request resets the context
RequestEnd(t) ==
    /\ run.pc[t] = "handling"
    /\ run' = [run EXCEPT !.pc[t] = "idle"]
    /\ last' = [NoOp EXCEPT !.op = "response", !.t = t, !.c = ctx[t]]
    /\ UNCHANGED <<ctx, tokens, view, obj, db, sess>>

InitRequests ==
    /\ ctx = [t \in Threads |-> PyNone]
    /\ tokens = [t \in Threads |-> <<>>]
    /\ view = [t \in Threads |-> <<PyNone>>]
    /\ obj = [key \in Fields |-> NullSlots]
    /\ last = NoOp
    /\ db = <<>>
    /\ sess = <<>>
    /\ run = [pc |-> [t \in Threads |-> "idle"],
              header |-> [t \in Threads |-> PyNone], n |-> 0]

NextRequests ==
    \E t \in Threads :
        \/ \E client_id \in ClientHeaders : SetContextFromGraph(t, client_id)
        \/ \E key \in {"name", "description"} :
              RequestWrite(t, key, PyStr("foo"))
        \/ RequestEnd(t)

SpecRequests == InitRequests /\ [][NextRequests]_vars

-----------------------------------------------------------------------------
(* The field descriptor: C1 to C4 *)

\* The slots the last operation wrote or read
Slots == obj[last.key]

\* The last operation assigned a value of the field's type
TypedWrite ==
    /\ last.op = "set"
    /\ last.value \in Domain(Descriptor(last.key).encoder)

\* The redacted value the specification gives each encoder
RECURSIVE RedactedValue(_)
RedactedValue(encoder) ==
    CASE encoder.k = "String" -> PyStr("")
      [] encoder.k = "Int" -> PyInt(0)
      [] encoder.k = "Nullable" -> RedactedValue(encoder.inner)

\* C1 as claimed: after any write through the setter of a value of the
\* field's type, exactly one of the encrypted and the unencrypted slot is
\* non-null.
C1_ExactlyOneSlot ==
    TypedWrite =>
        (Slots.encrypted # PyNone) # (Slots.unencrypted # PyNone)

\* C1 as amended: after any write through the setter of a value of the
\* field's type, the encrypted and the unencrypted slot are never both
\* non-null, and both are null exactly when null was written with no
\* encryptor context bound.
C1_AtMostOneSlot ==
    TypedWrite =>
        /\ ~(Slots.encrypted # PyNone /\ Slots.unencrypted # PyNone)
        /\ (Slots.encrypted = PyNone /\ Slots.unencrypted = PyNone)
              <=> (last.value = PyNone /\ last.c = PyNone)

C1_Witness ==
    /\ TypedWrite
    /\ last.value = PyNone
    /\ last.c = PyNone
    /\ last.pre = "Encrypted"
    /\ Slots.encrypted = PyNone
    /\ Slots.unencrypted = PyNone

\* C2: a write of v with an encryptor context bound, whatever state the
\* field was in, leaves the unencrypted slot null and the encrypted slot
\* non-null, and a read under the same context returns v.
C2_BoundWriteEncrypts ==
    (TypedWrite /\ last.c # PyNone) =>
        /\ Slots.unencrypted = PyNone
        /\ Slots.encrypted # PyNone
        /\ Prop(obj, last.key, last.c) = last.value

C2_Witness ==
    /\ TypedWrite
    /\ last.c # PyNone
    /\ last.pre = "Encrypted"
    /\ last.key = "description"
    /\ last.value = PyStr("foo")
    /\ Slots.encrypted # PyNone
    /\ ~(Slots.encrypted.keys \subseteq DecryptKeyIds("c3"))

\* C3: a write of v with no encryptor context bound, whatever state the
\* field was in, does not raise, stores v in the unencrypted slot, leaves
\* the encrypted slot and the beacon slot null, and a read returns v.
C3_UnboundWriteStoresPlaintext ==
    (TypedWrite /\ last.c = PyNone) =>
        /\ last.res = PyNone
        /\ Slots.unencrypted = last.value
        /\ Slots.encrypted = PyNone
        /\ Slots.beacon = PyNone
        /\ Prop(obj, last.key, PyNone) = last.value

C3_Witness ==
    /\ TypedWrite
    /\ last.c = PyNone
    /\ last.pre = "Encrypted"
    /\ last.key = "name"
    /\ Slots.unencrypted = PyStr("bar")

\* C4 as claimed: a read of a value encrypted under tenant A, with the
\* context bound to a tenant whose key ids share none with A's, returns
\* the encoder's redacted value; it does not raise.
C4_ReadRedacts ==
    (/\ last.op = "get"
     /\ Slots.encrypted # PyNone
     /\ last.c # PyNone
     /\ \E a \in ContextKeys :
            /\ Slots.encrypted.keys = EncryptKeyIds(a)
            /\ DecryptKeyIds(a) \cap DecryptKeyIds(last.c.encryptor) = {})
    => last.res = RedactedValue(Descriptor(last.key).encoder)

-----------------------------------------------------------------------------
(* The encryptor context: C5 and C6 *)

\* C5: when a set_encryptor_context scope is left, normally or by an
\* exception, the thread's encryptor context is what it was just before
\* the scope was entered, at every depth of nesting.
C5_ExitRestores ==
    last.op = "exit" => ctx[last.t] = Last(view[last.t])

C5_Witness ==
    /\ last.op = "exit"
    /\ IsRaised(last.res)
    /\ Len(tokens[last.t]) = 1
    /\ ctx[last.t] # PyNone
    /\ last.c # ctx[last.t]

\* C6: each thread sees the encryptor context its own binds and resets
\* left, whatever the other thread did, and every encryption and
\* decryption runs under that context.
C6_ThreadsIsolated ==
    /\ \A t \in Threads : ctx[t] = Last(view[t])
    /\ last.op \in {"set", "get"} => last.c = Last(view[last.t])
    /\ (last.op = "set" /\ Slots.encrypted # PyNone) =>
          /\ Last(view[last.t]) # PyNone
          /\ Slots.encrypted.keys = EncryptKeyIds(Last(view[last.t]).encryptor)

C6_Witness ==
    /\ last.op = "set"
    /\ last.t = "t2"
    /\ ctx["t1"] # PyNone
    /\ ctx["t2"] # PyNone
    /\ ctx["t1"].encryptor # ctx["t2"].encryptor
    /\ Slots.encrypted.keys = EncryptKeyIds(ctx["t2"].encryptor)

-----------------------------------------------------------------------------
(* The reencryption command: C7 to C10 *)

\* The statistics a run has produced so far, the open collector included
Statistics == Range(run.stats) \cup {GetStatistic(run.collector)}

\* Every instance the iterators yield to the client of the run
Yielded(client_id) ==
    UNION {Range(InstanceIterator(Models[m], client_id)) : m \in DOMAIN Models}

\* C7: when reencrypt(client_id, dry_run=false) is run twice in succession
\* for the same client, the second run does not raise and reports
\* instances_found_to_be_unencrypted = 0 for every model.
C7_SecondRunClean ==
    (/\ run.n = 2
     /\ ~run.dry_run
     /\ run.earlier = "done"
     /\ run.pc \in {"done", "failed"})
    => /\ run.pc = "done"
       /\ \A s \in Statistics : s.instances_found_to_be_unencrypted = 0

\* C8: a run with dry_run=true changes no stored slot of any record, at
\* any point of the run, and commits no change: the stored rows and the
\* session equal the rows before the run and no instance is counted as
\* reencrypted.
C8_DryRunChangesNothing ==
    (run.pc # "idle" /\ run.dry_run)
    => /\ db = run.before
       /\ sess = run.before
       /\ \A s \in Statistics : s.instances_reencrypted = 0

C8_Witness ==
    /\ run.pc = "done"
    /\ run.dry_run
    /\ run.yielded = Cardinality(Yielded(run.client_id))
    /\ run.yielded > 1
    /\ \E s \in Statistics : s.instances_found_to_be_unencrypted > 0

\* C9: a run for a client with no entry of its own among the encryptors
\* fails with ValueError before any instance is yielded, assigned or
\* committed, and before an encryptor context is bound.
C9_UnconfiguredClientFailsFirst ==
    (run.pc # "idle" /\ run.client_id \notin Encryptors)
    => /\ run.pc = "failed"
       /\ run.raised = Raised("ValueError")
       /\ run.yielded = 0
       /\ db = run.before
       /\ sess = run.before
       /\ ctx[Main] = PyNone

C9_Witness ==
    /\ run.pc = "failed"
    /\ run.client_id \notin Encryptors
    /\ "default" \in Encryptors
    /\ ~run.dry_run

\* C10: when an instance raises during a run with dry_run=false, every
\* instance of that model's batch is stored with the slots it had before
\* the run.
C10_FailureRollsBackBatch ==
    (/\ run.pc = "failed"
     /\ ~run.dry_run
     /\ run.yielded > 0)
    => \A instance \in Range(InstanceIterator(Models[run.m], run.client_id)) :
          db[instance] = run.before[instance]

-----------------------------------------------------------------------------
(* The reencryption command: C11 to C14 *)

\* The classes that derive from a base model, directly or through a class
\* in between
Derived(base_model) ==
    Subclasses(base_model)
        \cup UNION {Subclasses(model) : model \in Subclasses(base_model)}

\* The command is built to handle every class with an encrypted field that
\* derives from a base model of its mapping
PlanCoversDerived ==
    \A base_model \in DOMAIN run.base_models_mapping :
       \A model \in Derived(base_model) :
          Len(EncryptionColumns(model)) > 0
             => model \in run.base_models_mapping[base_model]

\* C11: for a client with an encryptor of its own, the run fails with
\* ValueError before any instance is yielded or any row changed exactly
\* when some class with an encrypted field that derives from a base model
\* of the mapping is not declared under it.
C11_CoverageValidation ==
    (run.pc # "idle" /\ HasEncryptionConfig(run.client_id))
    => IF PlanCoversDerived
       THEN ~(run.raised = Raised("ValueError") /\ run.yielded = 0)
       ELSE /\ run.pc = "failed"
            /\ run.raised = Raised("ValueError")
            /\ run.yielded = 0
            /\ db = run.before
            /\ sess = run.before

\* The instance whose reencryption raised
Failing == InstanceIterator(Models[run.m], run.client_id)[run.i]

\* C12: when reencrypt_instance raises on an instance during a run with
\* dry_run=false, nothing of that instance is stored changed: no column of
\* it is committed re-encrypted while another is not.
C12_InstanceAtomic ==
    (/\ run.pc = "failed"
     /\ ~run.dry_run
     /\ run.yielded > 0)
    => db[Failing] = run.before[Failing]

\* The context the run binds for its client
Target == EncryptorSessionContextAsClient(run.client_id)

\* C13: during and after a run with dry_run=false, every column of every
\* instance of the client reads, in the context of the run, as it read
\* before the run: the same value, and no exception the read before the
\* run did not raise.
C13_ReadsPreserved ==
    (/\ run.pc \in {"iterating", "leaving", "done", "failed"}
     /\ ~run.dry_run
     /\ RunValidations(run.client_id, run.base_models_mapping))
    => \A instance \in Yielded(run.client_id) :
          \A column_name \in Range(EncryptionColumns(ModelOf(instance))) :
             Prop(db[instance], column_name, Target)
                = Prop(run.before[instance], column_name, Target)

\* C14: a run changes no slot of an instance of another client than the
\* client of the run, in the stored rows or in the session.
C14_OtherTenantsUntouched ==
    run.pc # "idle"
    => \A instance \in {i \in Instances : ClientOf(i) # run.client_id} :
          /\ db[instance] = run.before[instance]
          /\ sess[instance] = run.before[instance]

C14_Witness ==
    /\ run.pc = "done"
    /\ ~run.dry_run
    /\ run.client_id = "c2"
    /\ \A instance \in Yielded("c2") : db[instance] # run.before[instance]
    /\ db["p3"]["name"].encrypted # PyNone
    /\ db["p3"] = run.before["p3"]

-----------------------------------------------------------------------------
(* Beacons and search: C15 to C17 *)

\* A beacon secret is configured for the tenant whose encryptor produced
\* the ciphertext: the tenants that write have different keys
SecretOfWriter(encrypted) ==
    \E e \in FieldTenants :
       /\ EncryptKeyIds(e) = encrypted.keys
       /\ BeaconKey(e) # PyNone

\* C15: in every state, for every field that declares a beacon slot, the
\* beacon slot is non-null exactly when the encrypted slot is non-null and
\* a beacon secret is configured for the tenant that was active when the
\* encrypted slot was written.
C15_BeaconIffEncrypted ==
    \A key \in DOMAIN obj :
       Descriptor(key).beacon
          => (obj[key].beacon # PyNone
                <=> /\ obj[key].encrypted # PyNone
                    /\ SecretOfWriter(obj[key].encrypted))

\* The last operation was a search on a field that declares a beacon
BeaconSearch ==
    /\ last.op \in {"eq", "in"}
    /\ Descriptor(last.key).beacon

\* C16: a search by equality or inclusion on a field that declares a
\* beacon, made with a context bound, compares the beacon column with the
\* beacons the bound tenant computes for the values searched, and selects
\* the instance exactly when its beacon slot is one of them; when the
\* tenant has no beacon secret the search raises. Made with no context
\* bound, it compares the unencrypted column with the values themselves.
C16_SearchUsesBeacon ==
    BeaconSearch
    => IF last.c = PyNone
       THEN /\ last.res.column = "unencrypted"
            /\ last.res.values = last.value.v
            /\ last.res.t = "selected"
                  <=> obj[last.key].unencrypted \in last.value.v
       ELSE IF BeaconKey(last.c.encryptor) = PyNone
       THEN last.res = Raised("BeaconKeyNotSet")
       ELSE /\ last.res.column = "beacon"
            /\ last.res.values =
                  {AwsKmsBeacon(last.c, Encode(StringEncoder, other)) :
                      other \in last.value.v}
            /\ last.res.t = "selected"
                  <=> obj[last.key].beacon \in last.res.values

C16_Witness ==
    /\ BeaconSearch
    /\ last.op = "in"
    /\ last.c # PyNone
    /\ Cardinality(last.value.v) = 2
    /\ obj[last.key].unencrypted = PyNone
    /\ last.res.t = "selected"

\* C17: a search by equality on a field with no beacon slot, in any
\* context, does not raise and does not select an instance whose value is
\* stored encrypted, even when the value searched is the one stored.
C17_NoBeaconMatchesNothing ==
    (last.op = "eq" /\ ~Descriptor(last.key).beacon)
    => /\ ~IsRaised(last.res)
       /\ obj[last.key].encrypted # PyNone => last.res.t = "empty"

C17_Witness ==
    /\ last.op = "eq"
    /\ ~Descriptor(last.key).beacon
    /\ last.c # PyNone
    /\ obj[last.key].encrypted # PyNone
    /\ Prop(obj, last.key, last.c) \in last.value.v
    /\ last.res.t = "empty"

-----------------------------------------------------------------------------
(* The key registry and the router: C18 to C20 *)

\* C18: a lookup returns the encryptor registered under exactly the key
\* if there is one, otherwise the one registered under the default key if
\* there is one, and otherwise raises KeyError; key in router is true
\* exactly when the lookup of the key does not raise.
C18_LookupExactThenDefault ==
    last.op = "lookup"
    => /\ last.key \in DOMAIN run.encryptors
             => last.res.item = run.encryptors[last.key]
       /\ (last.key \notin DOMAIN run.encryptors
              /\ "default" \in DOMAIN run.encryptors)
             => last.res.item = run.encryptors["default"]
       /\ (last.key \notin DOMAIN run.encryptors
              /\ "default" \notin DOMAIN run.encryptors)
             => last.res.item = Raised("KeyError")
       /\ last.res.contains <=> ~IsRaised(last.res.item)

C18_Witness ==
    /\ last.op = "lookup"
    /\ last.key \notin DOMAIN run.encryptors
    /\ DOMAIN run.encryptors = {"c1", "default"}
    /\ last.res.item = run.encryptors["default"]
    /\ last.res.item # run.encryptors["c1"]
    /\ last.res.contains

\* C19: the router built from a registry with no context keys has no
\* encryptor, none under the default key either: every lookup raises and
\* key in router is false for every key.
C19_EmptyRegistryNoDefault ==
    (run.pc = "built" /\ run.config.context_keys = <<>>)
    => /\ DOMAIN run.encryptors = {}
       /\ last.op = "lookup"
             => /\ IsRaised(last.res.item)
                /\ ~last.res.contains

C19_Witness ==
    /\ run.pc = "built"
    /\ run.config.context_keys = <<>>
    /\ last.op = "lookup"
    /\ last.key = "default"
    /\ IsRaised(last.res.item)

\* The strings joined with the separator between them
RECURSIVE Join(_, _)
Join(strings, sep) ==
    IF Len(strings) = 1 THEN Head(strings)
    ELSE Head(strings) \o <<sep>> \o Join(Tail(strings), sep)

\* The list is the field split on ';': joined with ';' it is the field,
\* and none of its strings holds a ';'
IsSplitOf(list, field) ==
    /\ Len(list) >= 1
    /\ Join(list, ";") = field
    /\ \A ix \in DOMAIN list : \A jx \in DOMAIN list[ix] : list[ix][jx] # ";"

\* C20: parse_config maps every context key to its key_ids field split on
\* ';', in the order of the field, and to its account_ids field split the
\* same way; a field given as a list is kept as it is.
C20_ParseSplitsKeyIds ==
    run.pc \in {"parsed", "built"}
    => /\ DOMAIN run.keys =
             {run.config.context_keys[ix] : ix \in DOMAIN run.config.context_keys}
       /\ \A ix \in DOMAIN run.config.context_keys :
             LET entry == run.keys[run.config.context_keys[ix]]
                 key_id == run.config.key_ids[ix]
                 account_id == run.config.account_ids[ix]
             IN  /\ IF key_id.t = "str"
                    THEN IsSplitOf(entry.key_ids, key_id.v)
                    ELSE entry.key_ids = key_id.v
                 /\ IF account_id.t = "str"
                    THEN IsSplitOf(entry.account_ids, account_id.v)
                    ELSE entry.account_ids = account_id.v

C20_Witness ==
    /\ run.pc = "parsed"
    /\ Len(run.config.context_keys) = 2
    /\ run.config.key_ids[1] = StrField(<<"b", ";", "a">>)
    /\ run.keys[run.config.context_keys[1]].key_ids = << <<"b">>, <<"a">> >>
    /\ run.config.key_ids[2].t = "list"
    /\ run.keys[run.config.context_keys[2]].key_ids = run.config.key_ids[2].v

-----------------------------------------------------------------------------
(* Tenant encryptors and key rotation: C21 *)

-----------------------------------------------------------------------------
(* Defaults and reads: C22 and C23 *)

\* C22: when an instance is first flushed, every field that declares a
\* default and was never assigned has the slots that assigning the default,
\* in the context active at the flush, gives a field never assigned:
\* encrypted slot and beacon set and unencrypted slot null under a tenant,
\* unencrypted slot set and encrypted slot null under none.
C22_DefaultAsExplicitSet ==
    last.op = "insert"
    => \A key \in DOMAIN obj :
          (Descriptor(key).default # NOT_SET /\ last.value[key] = NullSlots)
          => obj[key] = PropSetter(last.value, key, Descriptor(key).default,
                                   last.c).self[key]

\* C23: a read of a field whose encrypted slot is set, made with no
\* encryptor context bound, raises EncryptorNotBound; a read of a field
\* whose encrypted slot is null returns what the unencrypted slot holds,
\* in every context.
C23_UnboundReadRaises ==
    last.op = "get"
    => /\ (Slots.encrypted # PyNone /\ last.c = PyNone)
             => last.res = Raised("EncryptorNotBound")
       /\ Slots.encrypted = PyNone => last.res = Slots.unencrypted

C23_Witness ==
    /\ last.op = "get"
    /\ last.c = PyNone
    /\ Slots.encrypted # PyNone
    /\ last.res = Raised("EncryptorNotBound")

-----------------------------------------------------------------------------
(* Encoders: C24 *)

\* C24: for every encoder, alone, in an array or in a nullable, and every
\* valid value of it, None and lists included, encode returns a string and
\* decode of that string is the value.
C24_RoundTrip ==
    /\ run.pc \in {"encoded", "decoded"} => run.encoded.t = "str"
    /\ run.pc = "decoded" => run.decoded = run.value

C24_Witness ==
    /\ run.pc = "decoded"
    /\ run.encoder = Nullable(ArrayEncoder(StringEncoder))
    /\ run.value = PyList(<<PyStr("a\"b"), PyStr("null")>>)
    /\ run.encoded # run.value
    /\ run.decoded = run.value

-----------------------------------------------------------------------------
(* The audit command: C25 *)

\* The models with encrypted columns among the direct subclasses of the
\* base models the command was built with
AuditedModels ==
    UNION {{m \in Subclasses(base_model) : EncryptionColumns(m) # <<>>} :
             base_model \in DOMAIN run.base_models_mapping}

\* The lines of a log that name a model and its columns
ModelLines(log) == {line \in log : line.msg = "Model name: {}, Cols used: {}"}

-----------------------------------------------------------------------------
(* Key rotation: C26 *)

\* The record was added under the first tenant and then reencrypted, with
\* no exception, under the others in turn
Rotated(trace) == run.pc = "stored" /\ run.trace = trace

\* The last operation read a column of the record under the tenant
ReadUnder(encryptor) == last.op = "get" /\ last.c.encryptor = encryptor

-----------------------------------------------------------------------------
(* The two value slots: C27 *)

\* C27: in every reachable state, no field of the instance has both its
\* encrypted slot and its unencrypted slot non-null.
C27_NeverBothSlots ==
    \A key \in DOMAIN obj :
       ~(obj[key].encrypted # PyNone /\ obj[key].unencrypted # PyNone)

-----------------------------------------------------------------------------
(* A setter call that raises: C28 *)

\* C28: a setter call that raises leaves the encrypted, the unencrypted and
\* the beacon slot of the field, and of every other field, as they were
\* before the call.
C28_FailedSetChangesNothing ==
    [][(last'.op = "set" /\ last'.res # PyNone) => obj' = obj]_vars

-----------------------------------------------------------------------------
(* The per-request hook: C29 *)

\* C29: while a thread handles a request that carries no client header, no
\* encryptor is bound in the thread, whatever requests it handled before,
\* and what the request writes is stored as plaintext.
C29_NoHeaderNoEncryptor ==
    \A t \in Threads :
       (run.pc[t] = "handling" /\ run.header[t] = PyNone) =>
          /\ ctx[t] = PyNone
          /\ (last.op = "set" /\ last.t = t) =>
                 /\ obj[last.key].encrypted = PyNone
                 /\ obj[last.key].unencrypted = last.value

-----------------------------------------------------------------------------
(* The statistics of a run: C30 *)

\* C30: when a reencrypt run has completed, the statistic of each model
\* counts as found the instances its iterator yielded, counts as found to
\* be unencrypted no more than that, and counts as reencrypted none in a
\* dry run and all of them otherwise, every instance having an encrypted
\* column.
C30_Statistics ==
    run.pc = "done" =>
       /\ Len(run.stats) = Len(Models)
       /\ \A m \in DOMAIN run.stats :
             LET yielded == Len(InstanceIterator(Models[m], run.client_id))
             IN  /\ run.stats[m].total_instances_found = yielded
                 /\ run.stats[m].instances_found_to_be_unencrypted \in 0..yielded
                 /\ run.stats[m].instances_reencrypted =
                       IF run.dry_run THEN 0 ELSE yielded

\* A run that was not dry completed for the client with two Person rows,
\* one of them holding a plaintext value
C30_Witness ==
    /\ run.pc = "done"
    /\ ~run.dry_run
    /\ run.stats[1] = [model_name |-> "Person", total_instances_found |-> 2,
                       instances_found_to_be_unencrypted |-> 1,
                       instances_reencrypted |-> 2]
    /\ run.stats[2].total_instances_found = 1

====
